---- MODULE Spec2Model ----
(***************************************************************************)
(* Model rotation: the state store (RotationStateManager), the rotation    *)
(* engine (RotationEngine) and their callers.                              *)
(*                                                                         *)
(* The store maps a model identifier to its usage / cooldown / depletion   *)
(* record and rewrites its file on every mutation.  Engines are values     *)
(* (agent config) bound to the one shared store; every engine operation    *)
(* takes the engine's config as its first parameter.                       *)
(*                                                                         *)
(* Time is a clock of ticks.  Date.now() is read once per operation.       *)
(*                                                                         *)
(* AGENTS_WITH_ROTATION is the hook's registry of agents; hookLog is what  *)
(* an observer of the hook has seen: the event delivered last, the engine  *)
(* methods its handler invoked, and per event how often it was delivered   *)
(* and how often its usage was recorded.                                   *)
(*                                                                         *)
(* parsedError is the error handed to the ErrorParser and what parseError  *)
(* returned for it.                                                        *)
(*                                                                         *)
(* managers and files are the state managers of the processes that share   *)
(* one config directory, each with its own inMemoryState and its position  *)
(* in saveState, and the two paths they use there: the state file and the  *)
(* temporary file next to it.                                              *)
(***************************************************************************)
EXTENDS Integers, Sequences, FiniteSets, TLC

VARIABLES inMemoryState, stateFile, now, last, AGENTS_WITH_ROTATION, hookLog,
          parsedError, managers, files

vars == <<inMemoryState, stateFile, now, last, AGENTS_WITH_ROTATION, hookLog,
          parsedError, managers, files>>

(***************************************************************************)
(* Bounds of the model.                                                    *)
(***************************************************************************)
MaxTime == 2
MaxCalls == 2
MaxTokens == 1
MaxLimit == 2
MaxCooldown == 1
MaxPool == 3
MaxDeliveries == 2
MaxLogged == 2

(***************************************************************************)
(* Program constants.                                                      *)
(***************************************************************************)
\* pruneOldModels(30): the prune horizon; one clock tick is 30 days.
STATE_MAX_AGE_DAYS == 1
\* cooldownUntil: string | null
NULL_TIME == -1
\* tokenCount?: number
UNDEFINED == -2

\* Model identifiers: Spec runs the store and the engines over two of them
\* with the clock; PoolSpec runs the engines over three within one instant.
Models == {"a", "b"}
PoolModels == {"a", "b", "c"}
\* nextModel: string | null, reason: string | null
NULL == "null"
ROTATE_ON_ERROR_REASON == "API quota/rate limit error"

Range(seq) == {seq[i] : i \in 1..Len(seq)}

\* availableModels: lists of distinct model identifiers, the empty list included
Pools(M) == {p \in UNION {[1..n -> M] : n \in 0..MaxPool} :
               Cardinality(Range(p)) = Len(p)}

\* RotationConfig
Configs == [enabled : BOOLEAN, limitType : {"calls", "tokens"},
            limitValue : 1..MaxLimit, cooldownMs : 1..MaxCooldown]

EmptyState == [m \in {} |-> 0]

(***************************************************************************)
(* RotationStateManager.  A store value st is [mem, file]: the in-memory   *)
(* state and the content of the state file.                                *)
(***************************************************************************)
NoFile == [exists |-> FALSE, content |-> EmptyState]

\* JSON.stringify + write to temp + rename: the file holds the whole state
saveState(st) == [st EXCEPT !.file = [exists |-> TRUE, content |-> st.mem]]

createEmptyModelState(t) ==
  [callCount |-> 0, tokenCount |-> UNDEFINED, lastUsedAt |-> t,
   inCooldown |-> FALSE, cooldownUntil |-> NULL_TIME, depleted |-> FALSE]

\* getModelState(model) !== undefined
isTracked(st, model) == model \in DOMAIN st.mem

\* this.getModelState(model) || this.createEmptyModelState()
currentState(st, model, t) ==
  IF isTracked(st, model) THEN st.mem[model] ELSE createEmptyModelState(t)

\* getModelState(model): the record of model, or nothing (undefined)
getModelState(st, model) ==
  IF isTracked(st, model) THEN <<st.mem[model]>> ELSE <<>>

\* updateModelState, were the state replaced by the updated record alone
updateModelState_Replaces(st, model, updated) ==
  saveState([st EXCEPT !.mem = [k \in {model} |-> updated]])

\* updated is updater(current): the record the updater returns
updateModelState(st, model, updated) ==
  LET mem2 == [k \in DOMAIN st.mem \cup {model} |->
                 IF k = model THEN updated ELSE st.mem[k]]
  IN saveState([st EXCEPT !.mem = mem2])

incrementUsage(st, model, tokensUsed, t) ==
  LET current == currentState(st, model, t) IN
  updateModelState(st, model,
      [current EXCEPT
         !.callCount = current.callCount + 1,
         !.tokenCount = IF tokensUsed # UNDEFINED
                        THEN (IF current.tokenCount = UNDEFINED THEN 0
                              ELSE current.tokenCount) + tokensUsed
                        ELSE current.tokenCount,
         !.lastUsedAt = t])

\* markDepleted, were the cooldown not added to the current time
markDepleted_NoNow(st, model, cooldownMs, t) ==
  LET current == currentState(st, model, t) IN
  updateModelState(st, model,
      [current EXCEPT !.lastUsedAt = t, !.inCooldown = TRUE,
                      !.cooldownUntil = cooldownMs, !.depleted = TRUE])

markDepleted(st, model, cooldownMs, t) ==
  LET current == currentState(st, model, t) IN
  updateModelState(st, model,
      [current EXCEPT !.lastUsedAt = t, !.inCooldown = TRUE,
                      !.cooldownUntil = t + cooldownMs, !.depleted = TRUE])

\* markAvailable, were the usage counters reset with the flags
markAvailable_KeepsDepleted(st, model, t) ==
  LET current == currentState(st, model, t) IN
  updateModelState(st, model,
      [current EXCEPT !.inCooldown = FALSE, !.cooldownUntil = NULL_TIME])

markAvailable_ResetsCounters(st, model, t) ==
  LET current == currentState(st, model, t) IN
  updateModelState(st, model,
      [current EXCEPT !.inCooldown = FALSE, !.cooldownUntil = NULL_TIME,
                      !.depleted = FALSE, !.callCount = 0,
                      !.tokenCount = UNDEFINED])

markAvailable(st, model, t) ==
  LET current == currentState(st, model, t) IN
  updateModelState(st, model,
      [current EXCEPT !.inCooldown = FALSE, !.cooldownUntil = NULL_TIME,
                      !.depleted = FALSE])

\* new Date(null) is the epoch
DateOf(x) == IF x = NULL_TIME THEN 0 ELSE x

\* isInCooldown, were the flag returned without a look at the clock
isInCooldown_FlagOnly(st, model, t) ==
  isTracked(st, model) /\ st.mem[model].inCooldown

isInCooldown(st, model, t) ==
  IF ~isTracked(st, model) THEN FALSE
  ELSE IF ~st.mem[model].inCooldown THEN FALSE
  ELSE t < DateOf(st.mem[model].cooldownUntil)

\* getUsageStats(model): the usage part of the record, or nothing
getUsageStats(st, model) ==
  IF isTracked(st, model)
  THEN <<[f \in DOMAIN st.mem[model] \ {"depleted"} |-> st.mem[model][f]]>>
  ELSE <<>>

resetUsage(st, model, t) ==
  LET current == currentState(st, model, t) IN
  updateModelState(st, model,
      [current EXCEPT !.callCount = 0, !.tokenCount = UNDEFINED,
                      !.depleted = FALSE])

getAllModels(st) == DOMAIN st.mem

\* pruneOldModels, were the call count not looked at
pruneOldModels_AnyFlag(st, maxAgeDays, t) ==
  LET cutoffDate == t - maxAgeDays
      stale == {k \in DOMAIN st.mem :
                  /\ st.mem[k].lastUsedAt < cutoffDate
                  /\ st.mem[k].callCount = 0}
      mem2 == [k \in DOMAIN st.mem \ stale |-> st.mem[k]]
  IN IF stale # {} THEN saveState([st EXCEPT !.mem = mem2]) ELSE st

pruneOldModels_AnyCallCount(st, maxAgeDays, t) ==
  LET cutoffDate == t - maxAgeDays
      stale == {k \in DOMAIN st.mem :
                  /\ st.mem[k].lastUsedAt < cutoffDate
                  /\ ~st.mem[k].inCooldown}
      mem2 == [k \in DOMAIN st.mem \ stale |-> st.mem[k]]
  IN IF stale # {} THEN saveState([st EXCEPT !.mem = mem2]) ELSE st

pruneOldModels(st, maxAgeDays, t) ==
  LET cutoffDate == t - maxAgeDays
      stale == {k \in DOMAIN st.mem :
                  /\ st.mem[k].lastUsedAt < cutoffDate
                  /\ ~st.mem[k].inCooldown
                  /\ st.mem[k].callCount = 0}
      mem2 == [k \in DOMAIN st.mem \ stale |-> st.mem[k]]
  IN IF stale # {} THEN saveState([st EXCEPT !.mem = mem2]) ELSE st

\* the loop of selectAvailableModel over models[i..]; returns [st, model]
RECURSIVE selectScan(_, _, _, _)
selectScan(st, models, i, t) ==
  IF i > Len(models) THEN [st |-> st, model |-> models[1]]
  ELSE LET model == models[i] IN
    IF ~isTracked(st, model) THEN [st |-> st, model |-> model]
    ELSE IF /\ st.mem[model].inCooldown
            /\ st.mem[model].cooldownUntil # NULL_TIME
            /\ t >= st.mem[model].cooldownUntil
         THEN [st |-> markAvailable(st, model, t), model |-> model]
    ELSE IF ~st.mem[model].depleted /\ ~isInCooldown(st, model, t)
         THEN [st |-> st, model |-> model]
    ELSE selectScan(st, models, i + 1, t)

\* selectAvailableModel, were a pool of one scanned like any other
selectAvailableModel_NoShortcut(st, models, t) ==
  IF Len(models) = 0 THEN [st |-> st, model |-> NULL]
  ELSE selectScan(pruneOldModels(st, STATE_MAX_AGE_DAYS, t), models, 1, t)

selectAvailableModel(st, models, t) ==
  IF Len(models) = 0 THEN [st |-> st, model |-> NULL]
  ELSE IF Len(models) = 1 THEN [st |-> st, model |-> models[1]]
  ELSE selectScan(pruneOldModels(st, STATE_MAX_AGE_DAYS, t), models, 1, t)

(***************************************************************************)
(* RotationEngine.  config is the engine's RotationConfig.                 *)
(***************************************************************************)
NoRotation == [rotated |-> FALSE, nextModel |-> NULL, reason |-> NULL,
               allDepleted |-> FALSE]

\* the loop of findNextAvailableModel over availableModels[i..]
RECURSIVE findScan(_, _, _, _)
\* findScan, were the cooldown check missing
findScan_DepletedOnly(st, availableModels, i, t) ==
  IF i > Len(availableModels) THEN NULL
  ELSE LET model == availableModels[i] IN
    IF ~isTracked(st, model) THEN model
    ELSE IF ~st.mem[model].depleted THEN model
    ELSE findScan(st, availableModels, i + 1, t)

\* findScan, were a depleted model taken again once its cooldown is over
findScan_ExpiredIsAvailable(st, availableModels, i, t) ==
  IF i > Len(availableModels) THEN NULL
  ELSE LET model == availableModels[i] IN
    IF ~isTracked(st, model) THEN model
    ELSE IF ~isInCooldown(st, model, t) THEN model
    ELSE findScan(st, availableModels, i + 1, t)

findScan(st, availableModels, i, t) ==
  IF i > Len(availableModels) THEN NULL
  ELSE LET model == availableModels[i] IN
    IF ~isTracked(st, model) THEN model
    ELSE IF ~st.mem[model].depleted /\ ~isInCooldown(st, model, t) THEN model
    ELSE findScan(st, availableModels, i + 1, t)

\* returns [st, model]: the store after the prune and the model found
findNextAvailableModel(st, availableModels, t) ==
  LET st2 == pruneOldModels(st, STATE_MAX_AGE_DAYS, t)
  IN [st |-> st2, model |-> findScan(st2, availableModels, 1, t)]

RECURSIVE markAllDepleted(_, _, _, _, _)
\* markAllDepleted, were it to mark nothing
markAllDepleted_Nothing(st, config, availableModels, i, t) == st

markAllDepleted(st, config, availableModels, i, t) ==
  IF i > Len(availableModels) THEN st
  ELSE LET model == availableModels[i]
           st2 == IF isTracked(st, model) /\ ~st.mem[model].depleted
                  THEN markDepleted(st, model, config.cooldownMs, t)
                  ELSE st
       IN markAllDepleted(st2, config, availableModels, i + 1, t)

\* rotate, were the model found marked depleted instead of the current one
rotate_NoReason(st, config, currentModel, availableModels, reason, t) ==
  LET found == findNextAvailableModel(st, availableModels, t) IN
  IF found.model = NULL
  THEN [st |-> markAllDepleted(found.st, config, availableModels, 1, t),
        result |-> [rotated |-> TRUE, nextModel |-> NULL, reason |-> NULL,
                    allDepleted |-> TRUE]]
  ELSE [st |-> markDepleted(found.st, currentModel, config.cooldownMs, t),
        result |-> [rotated |-> TRUE, nextModel |-> found.model,
                    reason |-> reason, allDepleted |-> FALSE]]

rotate_DepletesFound(st, config, currentModel, availableModels, reason, t) ==
  LET found == findNextAvailableModel(st, availableModels, t) IN
  IF found.model = NULL
  THEN [st |-> markAllDepleted(found.st, config, availableModels, 1, t),
        result |-> [rotated |-> TRUE, nextModel |-> NULL, reason |-> reason,
                    allDepleted |-> TRUE]]
  ELSE [st |-> markDepleted(found.st, found.model, config.cooldownMs, t),
        result |-> [rotated |-> TRUE, nextModel |-> found.model,
                    reason |-> reason, allDepleted |-> FALSE]]

\* returns [st, result]
rotate(st, config, currentModel, availableModels, reason, t) ==
  LET found == findNextAvailableModel(st, availableModels, t) IN
  IF found.model = NULL
  THEN [st |-> markAllDepleted(found.st, config, availableModels, 1, t),
        result |-> [rotated |-> TRUE, nextModel |-> NULL, reason |-> reason,
                    allDepleted |-> TRUE]]
  ELSE [st |-> markDepleted(found.st, currentModel, config.cooldownMs, t),
        result |-> [rotated |-> TRUE, nextModel |-> found.model,
                    reason |-> reason, allDepleted |-> FALSE]]

UsageLimitReason(callCount, limitValue) ==
  "Usage limit reached (" \o ToString(callCount) \o "/"
     \o ToString(limitValue) \o " calls)"

\* shouldRotate, were the stale records pruned before the decision
shouldRotate_PrunesFirst(st, config, currentModel, availableModels, t) ==
  LET st2 == pruneOldModels(st, STATE_MAX_AGE_DAYS, t) IN
  IF ~config.enabled \/ Len(availableModels) <= 1
  THEN [st |-> st2, result |-> NoRotation]
  ELSE IF ~isTracked(st2, currentModel)
  THEN [st |-> st2, result |-> NoRotation]
  ELSE IF /\ config.limitType = "calls"
          /\ st2.mem[currentModel].callCount >= config.limitValue
  THEN rotate(st2, config, currentModel, availableModels,
              UsageLimitReason(st2.mem[currentModel].callCount,
                               config.limitValue), t)
  ELSE [st |-> st2, result |-> NoRotation]

\* shouldRotate, were the threshold applied whatever the limit type
shouldRotate_AnyLimitType(st, config, currentModel, availableModels, t) ==
  IF ~config.enabled \/ Len(availableModels) <= 1
  THEN [st |-> st, result |-> NoRotation]
  ELSE IF ~isTracked(st, currentModel)
  THEN [st |-> st, result |-> NoRotation]
  ELSE IF st.mem[currentModel].callCount >= config.limitValue
  THEN rotate(st, config, currentModel, availableModels,
              UsageLimitReason(st.mem[currentModel].callCount,
                               config.limitValue), t)
  ELSE [st |-> st, result |-> NoRotation]

shouldRotate(st, config, currentModel, availableModels, t) ==
  IF ~config.enabled \/ Len(availableModels) <= 1
  THEN [st |-> st, result |-> NoRotation]
  ELSE IF ~isTracked(st, currentModel)
  THEN [st |-> st, result |-> NoRotation]
  ELSE IF /\ config.limitType = "calls"
          /\ st.mem[currentModel].callCount >= config.limitValue
  THEN rotate(st, config, currentModel, availableModels,
              UsageLimitReason(st.mem[currentModel].callCount,
                               config.limitValue), t)
  ELSE [st |-> st, result |-> NoRotation]

\* rotateOnError, were a model with no usage on record not rotated away from
rotateOnError_OnlyWhenUsed(st, config, currentModel, availableModels, t) ==
  IF ~config.enabled \/ Len(availableModels) <= 1
  THEN [st |-> st, result |-> NoRotation]
  ELSE IF ~isTracked(st, currentModel) \/ st.mem[currentModel].callCount = 0
  THEN [st |-> st, result |-> NoRotation]
  ELSE rotate(st, config, currentModel, availableModels,
              ROTATE_ON_ERROR_REASON, t)

\* rotateOnError, were only the empty pool refused
rotateOnError_EmptyPoolOnly(st, config, currentModel, availableModels, t) ==
  IF ~config.enabled \/ Len(availableModels) < 1
  THEN [st |-> st, result |-> NoRotation]
  ELSE rotate(st, config, currentModel, availableModels,
              ROTATE_ON_ERROR_REASON, t)

rotateOnError(st, config, currentModel, availableModels, t) ==
  IF ~config.enabled \/ Len(availableModels) <= 1
  THEN [st |-> st, result |-> NoRotation]
  ELSE rotate(st, config, currentModel, availableModels,
              ROTATE_ON_ERROR_REASON, t)

\* recordUsage, were a second call within the same instant dropped
recordUsage_OncePerInstant(st, config, model, t) ==
  IF config.enabled /\ (~isTracked(st, model) \/ st.mem[model].lastUsedAt # t)
  THEN incrementUsage(st, model, UNDEFINED, t) ELSE st

\* recordUsage(model): the engine passes no token figure to the store
recordUsage(st, config, model, t) ==
  IF config.enabled THEN incrementUsage(st, model, UNDEFINED, t) ELSE st

RECURSIVE resetOver(_, _, _)
resetOver(st, todo, t) ==
  IF todo = {} THEN st
  ELSE LET model == CHOOSE m \in todo : TRUE
           st2 == IF st.mem[model].inCooldown /\ ~st.mem[model].depleted
                  THEN markAvailable(st, model, t) ELSE st
       IN resetOver(st2, todo \ {model}, t)

\* resetCooldowns, were every model flagged inCooldown marked available
resetCooldowns_AlsoDepleted(st, t) ==
  saveState([st EXCEPT !.mem =
     [k \in DOMAIN st.mem |->
        IF st.mem[k].inCooldown
        THEN [st.mem[k] EXCEPT !.inCooldown = FALSE,
                               !.cooldownUntil = NULL_TIME, !.depleted = FALSE]
        ELSE st.mem[k]]])

resetCooldowns(st, t) == resetOver(st, getAllModels(st), t)

\* isFullyDepleted, were an untracked member passed over
isFullyDepleted_TrackedOnly(st, availableModels) ==
  \A i \in 1..Len(availableModels) :
     isTracked(st, availableModels[i]) => st.mem[availableModels[i]].depleted

isFullyDepleted(st, availableModels) ==
  \A i \in 1..Len(availableModels) :
     /\ isTracked(st, availableModels[i])
     /\ st.mem[availableModels[i]].depleted

getNextModel(st, availableModels, t) ==
  findNextAvailableModel(st, availableModels, t)

(***************************************************************************)
(* JavaScript values, as far as the error classifier and the hook look at  *)
(* them: a value is a record tagged with its type; an object carries the   *)
(* function f from its property names to their values.                     *)
(***************************************************************************)
JSUndefined == [t |-> "undefined"]
JSNull == [t |-> "null"]
Str(s) == [t |-> "string", v |-> s]
Num(n) == [t |-> "number", v |-> n]
Bool(b) == [t |-> "boolean", v |-> b]
Obj(f) == [t |-> "object", f |-> f]

\* typeof x
typeof(x) == IF x.t = "null" THEN "object" ELSE x.t

\* !!x
Truthy(x) ==
  CASE x.t = "string" -> x.v # ""
    [] x.t = "number" -> x.v # 0
    [] x.t = "boolean" -> x.v
    [] x.t = "object" -> TRUE
    [] OTHER -> FALSE

\* x.k and x?.k: undefined when x has no such property
Get(x, k) == IF x.t = "object" /\ k \in DOMAIN x.f THEN x.f[k] ELSE JSUndefined

\* String(x)
StringOf(x) ==
  CASE x.t = "string" -> x.v
    [] x.t = "number" -> ToString(x.v)
    [] x.t = "boolean" -> (IF x.v THEN "true" ELSE "false")
    [] x.t = "object" -> "[object Object]"
    [] x.t = "null" -> "null"
    [] OTHER -> "undefined"

\* String(x ?? "")
StringOrEmpty(x) == IF x.t \in {"undefined", "null"} THEN "" ELSE StringOf(x)

UpperCaseLetters == "ABCDEFGHIJKLMNOPQRSTUVWXYZ"
LowerCaseLetters == "abcdefghijklmnopqrstuvwxyz"

\* c.toLowerCase() of one character
lowerChar(c) ==
  IF \E i \in 1..Len(UpperCaseLetters) : SubSeq(UpperCaseLetters, i, i) = c
  THEN LET i == CHOOSE j \in 1..Len(UpperCaseLetters) :
                  SubSeq(UpperCaseLetters, j, j) = c
       IN SubSeq(LowerCaseLetters, i, i)
  ELSE c

\* text.toLowerCase()
RECURSIVE toLowerCase(_)
toLowerCase(text) ==
  IF Len(text) = 0 THEN ""
  ELSE lowerChar(SubSeq(text, 1, 1)) \o toLowerCase(SubSeq(text, 2, Len(text)))

\* text.includes(part)
includes(text, part) ==
  \E i \in 1..(Len(text) - Len(part) + 1) :
     SubSeq(text, i, i + Len(part) - 1) = part

(***************************************************************************)
(* ErrorParser.                                                            *)
(***************************************************************************)
ROTATION_ERROR_KEYWORDS ==
  <<"rate limit", "quota exceeded", "too many requests", "429",
    "rate_limited", "quota_exceeded", "resource_exhausted",
    "service_unavailable", "insufficient_quota", "overloaded",
    "rate_limit_error", "permission_denied", "maximum quota",
    "model not found", "modelfound", "ProviderModelNotFoundError",
    "not found", "invalid model", "does not exist">>

ParseResult(isRotationTriggering, errorType, provider, message) ==
  [isRotationTriggering |-> isRotationTriggering, errorType |-> errorType,
   provider |-> provider, message |-> message]

\* defaultResult, were its errorType rate_limit
defaultResult_RateLimit(message) ==
  ParseResult(FALSE, "rate_limit", "unknown", message)

defaultResult(message) == ParseResult(FALSE, "other", "unknown", message)

\* keyword.toLowerCase() of every keyword
lowerKeywords ==
  [i \in 1..Len(ROTATION_ERROR_KEYWORDS) |->
     toLowerCase(ROTATION_ERROR_KEYWORDS[i])]

containsRotationKeywords(text) ==
  LET lowerText == toLowerCase(text) IN
  \E i \in 1..Len(ROTATION_ERROR_KEYWORDS) :
     includes(lowerText, lowerKeywords[i])

\* determineErrorType, were the quota marks looked at before the not-found
\* marks
determineErrorType_QuotaFirst(message, error) ==
  LET lowerMessage == toLowerCase(message)
      errorType == toLowerCase(StringOrEmpty(Get(error, "type")))
      errorCode == toLowerCase(StringOrEmpty(Get(error, "code")))
      errorStatus == toLowerCase(StringOrEmpty(Get(error, "status")))
      errorName == toLowerCase(StringOrEmpty(Get(error, "name")))
  IN IF \/ includes(lowerMessage, "quota")
        \/ includes(lowerMessage, "insufficient")
        \/ includes(lowerMessage, "exhausted")
        \/ includes(errorType, "quota")
        \/ includes(errorCode, "quota")
        \/ includes(errorCode, "insufficient")
        \/ errorStatus = "resource_exhausted"
     THEN "quota"
     ELSE IF \/ includes(lowerMessage, "not found")
             \/ includes(lowerMessage, "does not exist")
             \/ includes(lowerMessage, "invalid model")
             \/ includes(errorName, "modelnotfound")
             \/ includes(errorType, "not_found")
     THEN "model_not_found"
     ELSE "rate_limit"

determineErrorType(message, error) ==
  LET lowerMessage == toLowerCase(message)
      errorType == toLowerCase(StringOrEmpty(Get(error, "type")))
      errorCode == toLowerCase(StringOrEmpty(Get(error, "code")))
      errorStatus == toLowerCase(StringOrEmpty(Get(error, "status")))
      errorName == toLowerCase(StringOrEmpty(Get(error, "name")))
  IN IF \/ includes(lowerMessage, "not found")
        \/ includes(lowerMessage, "does not exist")
        \/ includes(lowerMessage, "invalid model")
        \/ includes(errorName, "modelnotfound")
        \/ includes(errorType, "not_found")
     THEN "model_not_found"
     ELSE IF \/ includes(lowerMessage, "quota")
             \/ includes(lowerMessage, "insufficient")
             \/ includes(lowerMessage, "exhausted")
             \/ includes(errorType, "quota")
             \/ includes(errorCode, "quota")
             \/ includes(errorCode, "insufficient")
             \/ errorStatus = "resource_exhausted"
     THEN "quota"
     ELSE "rate_limit"

determineErrorTypeFromString(text) ==
  LET lowerText == toLowerCase(text) IN
  IF \/ includes(lowerText, "not found")
     \/ includes(lowerText, "does not exist")
     \/ includes(lowerText, "invalid model")
     \/ includes(lowerText, "modelnotfound")
  THEN "model_not_found"
  ELSE IF \/ includes(lowerText, "quota")
          \/ includes(lowerText, "insufficient")
          \/ includes(lowerText, "exhausted")
  THEN "quota"
  ELSE "rate_limit"

extractMessage(error) ==
  LET nestedError == Get(error, "error")
      deepError == Get(nestedError, "data")
      deepestError == Get(deepError, "error")
  IN IF typeof(Get(error, "message")) = "string"
     THEN Get(error, "message").v
     ELSE IF Truthy(nestedError) /\ typeof(Get(nestedError, "message")) = "string"
     THEN Get(nestedError, "message").v
     ELSE IF /\ Truthy(deepestError)
             /\ typeof(deepestError) = "object"
             /\ typeof(Get(deepestError, "message")) = "string"
     THEN Get(deepestError, "message").v
     ELSE IF typeof(Get(error, "details")) = "string"
     THEN Get(error, "details").v
     ELSE IF typeof(Get(nestedError, "details")) = "string"
     THEN Get(nestedError, "details").v
     ELSE StringOrEmpty(error)

detectProviderFromString(text) ==
  LET lowerText == toLowerCase(text) IN
  IF includes(lowerText, "anthropic") \/ includes(lowerText, "claude")
  THEN "anthropic"
  ELSE IF includes(lowerText, "openai") \/ includes(lowerText, "gpt")
  THEN "openai"
  ELSE IF includes(lowerText, "google") \/ includes(lowerText, "gemini")
  THEN "google"
  ELSE "unknown"

\* the provider named by the error's model field
detectProvider(error) ==
  detectProviderFromString(StringOrEmpty(Get(error, "model")))

detectProviderFromErrorType(error) ==
  LET nestedError == Get(error, "error") IN
  IF ~Truthy(nestedError) THEN "unknown"
  ELSE LET errorType == toLowerCase(StringOrEmpty(Get(nestedError, "type")))
           errorCode == toLowerCase(StringOrEmpty(Get(nestedError, "code")))
           errorStatus == toLowerCase(StringOrEmpty(Get(nestedError, "status")))
       IN IF includes(errorCode, "rate_limit") \/ includes(errorCode, "insufficient")
          THEN "openai"
          ELSE IF \/ includes(errorType, "rate_limit")
                  \/ errorType = "quota_exceeded"
                  \/ errorType = "overloaded_error"
          THEN "anthropic"
          ELSE IF errorStatus = "resource_exhausted"
          THEN "google"
          ELSE "unknown"

RECURSIVE parseNestedError(_, _)
parseNestedError(nestedError, parentProvider) ==
  LET errorType == toLowerCase(StringOrEmpty(Get(nestedError, "type")))
      errorCode == toLowerCase(StringOrEmpty(Get(nestedError, "code")))
      errorStatus == toLowerCase(StringOrEmpty(Get(nestedError, "status")))
      message == extractMessage(nestedError)
      provider ==
        IF parentProvider # "unknown" THEN parentProvider
        ELSE IF \/ includes(errorCode, "rate_limit")
                \/ includes(errorCode, "insufficient_quota")
        THEN "openai"
        ELSE IF errorStatus = "resource_exhausted"
        THEN "google"
        ELSE IF \/ includes(errorType, "rate_limit")
                \/ errorType = "quota_exceeded"
                \/ errorType = "overloaded_error"
        THEN "anthropic"
        ELSE "unknown"
      deepError == Get(nestedError, "data")
      deepResult == parseNestedError(Get(deepError, "error"), provider)
  IN IF \/ includes(errorType, "rate_limit")
        \/ includes(errorType, "quota")
        \/ includes(errorCode, "rate_limit")
        \/ includes(errorCode, "quota")
        \/ includes(errorCode, "insufficient")
        \/ errorStatus = "resource_exhausted"
        \/ containsRotationKeywords(message)
     THEN ParseResult(TRUE, determineErrorType(message, nestedError),
                      provider, message)
     ELSE IF /\ Truthy(Get(deepError, "error"))
             /\ typeof(Get(deepError, "error")) = "object"
             /\ deepResult.isRotationTriggering
     THEN deepResult
     ELSE defaultResult(message)

parseFromString(error, provider) ==
  IF containsRotationKeywords(error)
  THEN ParseResult(TRUE, determineErrorTypeFromString(error),
                   IF provider # "unknown" THEN provider
                   ELSE detectProviderFromString(error),
                   error)
  ELSE defaultResult(error)

\* parseError, were a 429 a rate limit whatever the nested error says
parseError_QuotaOnlyFor529(error) ==
  IF typeof(error) = "string" THEN parseFromString(error.v, "unknown")
  ELSE IF ~Truthy(error) \/ typeof(error) # "object"
  THEN defaultResult(StringOrEmpty(error))
  ELSE
    LET provider == detectProvider(error)
        status == Get(error, "status")
        message == extractMessage(error)
        nestedError == Get(error, "error")
        nested == parseNestedError(nestedError, provider)
    IN IF status.t = "number" /\ status.v \in {429, 529}
       THEN ParseResult(TRUE,
                 IF status.v = 529 THEN "quota" ELSE "rate_limit",
                 IF provider # "unknown" THEN provider
                 ELSE detectProviderFromErrorType(error),
                 message)
       ELSE IF /\ Truthy(nestedError)
               /\ typeof(nestedError) = "object"
               /\ nested.isRotationTriggering
       THEN nested
       ELSE IF containsRotationKeywords(message)
       THEN ParseResult(TRUE, determineErrorType(message, error), provider,
                        message)
       ELSE ParseResult(FALSE, "other", provider, message)

\* parseError, were the status code not looked at
parseError_NoStatusCheck(error) ==
  IF typeof(error) = "string" THEN parseFromString(error.v, "unknown")
  ELSE IF ~Truthy(error) \/ typeof(error) # "object"
  THEN defaultResult(StringOrEmpty(error))
  ELSE
    LET provider == detectProvider(error)
        message == extractMessage(error)
        nestedError == Get(error, "error")
        nested == parseNestedError(nestedError, provider)
    IN IF /\ Truthy(nestedError)
          /\ typeof(nestedError) = "object"
          /\ nested.isRotationTriggering
       THEN nested
       ELSE IF containsRotationKeywords(message)
       THEN ParseResult(TRUE, determineErrorType(message, error), provider,
                        message)
       ELSE ParseResult(FALSE, "other", provider, message)

parseError(error) ==
  IF typeof(error) = "string" THEN parseFromString(error.v, "unknown")
  ELSE IF ~Truthy(error) \/ typeof(error) # "object"
  THEN defaultResult(StringOrEmpty(error))
  ELSE
    LET provider == detectProvider(error)
        status == Get(error, "status")
        message == extractMessage(error)
        nestedError == Get(error, "error")
        nested == parseNestedError(nestedError, provider)
    IN IF status.t = "number" /\ status.v \in {429, 529}
       THEN LET nestedStatus == toLowerCase(StringOrEmpty(Get(nestedError, "status")))
                nestedCode == toLowerCase(StringOrEmpty(Get(nestedError, "code")))
                nestedMessage == toLowerCase(StringOrEmpty(Get(nestedError, "message")))
                isQuotaError ==
                  \/ nestedStatus = "resource_exhausted"
                  \/ includes(toLowerCase(message), "exhausted")
                  \/ includes(nestedCode, "insufficient")
                  \/ includes(nestedMessage, "insufficient")
            IN ParseResult(TRUE,
                 IF status.v = 529 \/ isQuotaError THEN "quota" ELSE "rate_limit",
                 IF provider # "unknown" THEN provider
                 ELSE detectProviderFromErrorType(error),
                 message)
       ELSE IF /\ Truthy(nestedError)
               /\ typeof(nestedError) = "object"
               /\ nested.isRotationTriggering
       THEN nested
       ELSE IF containsRotationKeywords(message)
       THEN ParseResult(TRUE, determineErrorType(message, error), provider,
                        message)
       ELSE ParseResult(FALSE, "other", provider, message)

\* a call: the operation, the engine's config, its arguments and its result
NoConfig == [enabled |-> FALSE, limitType |-> "calls", limitValue |-> 1,
             cooldownMs |-> 1]

Call(op, config, model, pool, arg, result) ==
  [op |-> op, config |-> config, model |-> model, pool |-> pool,
   arg |-> arg, result |-> result]

(***************************************************************************)
(* createRotationHooks: the host's event hook.                             *)
(***************************************************************************)
AgentNames == {"test-agent", "other"}
SessionIDs == {"ses_1"}

\* the value of AGENTS_WITH_ROTATION for one agent: its engine (config) and
\* its availableModels
RotationData ==
  [config : {c \in Configs : c.enabled},
   availableModels : Pools(Models) \ {<<>>}]

\* AGENTS_WITH_ROTATION as createRotationHooks leaves it when it returns
\* hooks: the agents with rotation enabled and at least one model, here
\* test-agent; the agent other has no rotation
Registries == [{"test-agent"} -> RotationData]

\* infoObj.error of the events delivered
HookErrors ==
  {JSUndefined,
   Obj([status |-> Num(429)]),
   Str("Rate limit exceeded"),
   Obj([error |-> Obj([message |-> Str("Internal server error")])]),
   Obj([name |-> Str("AbortError"), message |-> Str("aborted")])}

NoEvent ==
  [type |-> "none", sessionID |-> NULL, hasInfo |-> FALSE, role |-> "user",
   agent |-> NULL, modelID |-> NULL, error |-> JSUndefined]

\* eventInput.event.  hasInfo: properties and properties.info are there;
\* NULL for sessionID, agent or modelID: the field is not a string.  An
\* event of another type, or with no info, carries nothing else the handler
\* reads.
HookEvents ==
  {[NoEvent EXCEPT !.type = "session.idle"],
   [NoEvent EXCEPT !.type = "message.updated"]}
  \cup [type : {"message.updated"},
        sessionID : SessionIDs \cup {NULL},
        hasInfo : {TRUE},
        role : {"assistant", "user"},
        agent : AgentNames \cup {NULL},
        modelID : Models \cup {"", NULL},
        error : HookErrors]

\* what a run of the handler did: the store after it, the engine methods it
\* invoked in order, and the call it made last
HandlerRun(st, calls, call) == [st |-> st, calls |-> calls, call |-> call]

\* the event handler, were rotateOnError called for every error without a
\* look at what the parser says of it
event_RotatesOnAnyError(st, registry, eventInput, messagesTokens, t) ==
  LET agentName == eventInput.agent
      currentModel == IF eventInput.modelID = NULL THEN "" ELSE eventInput.modelID
      ignored == HandlerRun(st, <<>>,
                   Call("event", NoConfig, NULL, <<>>, 0, NoRotation))
  IN IF eventInput.type # "message.updated" THEN ignored
     ELSE IF ~eventInput.hasInfo THEN ignored
     ELSE IF eventInput.role # "assistant" THEN ignored
     ELSE IF agentName = NULL THEN ignored
     ELSE IF agentName \notin DOMAIN registry THEN ignored
     ELSE IF currentModel = "" THEN ignored
     ELSE
       LET rotationData == registry[agentName]
           tokensUsed == IF eventInput.sessionID = NULL THEN UNDEFINED
                         ELSE messagesTokens
           st2 == recordUsage(st, rotationData.config, currentModel, t)
           r == rotateOnError(st2, rotationData.config, currentModel,
                              rotationData.availableModels, t)
       IN IF ~Truthy(eventInput.error)
          THEN HandlerRun(st2, <<"recordUsage">>,
                 Call("event", rotationData.config, currentModel,
                      rotationData.availableModels, tokensUsed, NoRotation))
          ELSE HandlerRun(r.st, <<"recordUsage", "rotateOnError">>,
                 Call("event", rotationData.config, currentModel,
                      rotationData.availableModels, tokensUsed, r.result))

\* the event handler.  messagesTokens is the token figure
\* client.session.messages gives for the session (undefined when it gives
\* none or throws).
event(st, registry, eventInput, messagesTokens, t) ==
  LET agentName == eventInput.agent
      currentModel == IF eventInput.modelID = NULL THEN "" ELSE eventInput.modelID
      ignored == HandlerRun(st, <<>>,
                   Call("event", NoConfig, NULL, <<>>, 0, NoRotation))
  IN IF eventInput.type # "message.updated" THEN ignored
     ELSE IF ~eventInput.hasInfo THEN ignored
     ELSE IF eventInput.role # "assistant" THEN ignored
     ELSE IF agentName = NULL THEN ignored
     ELSE IF agentName \notin DOMAIN registry THEN ignored
     ELSE IF currentModel = "" THEN ignored
     ELSE
       LET rotationData == registry[agentName]
           tokensUsed == IF eventInput.sessionID = NULL THEN UNDEFINED
                         ELSE messagesTokens
           st2 == recordUsage(st, rotationData.config, currentModel, t)
           recorded == HandlerRun(st2, <<"recordUsage">>,
                         Call("event", rotationData.config, currentModel,
                              rotationData.availableModels, tokensUsed,
                              NoRotation))
           r == rotateOnError(st2, rotationData.config, currentModel,
                              rotationData.availableModels, t)
       IN IF ~Truthy(eventInput.error) THEN recorded
          ELSE IF ~parseError(eventInput.error).isRotationTriggering THEN recorded
          ELSE HandlerRun(r.st, <<"recordUsage", "rotateOnError">>,
                 Call("event", rotationData.config, currentModel,
                      rotationData.availableModels, tokensUsed, r.result))

(***************************************************************************)
(* The state machine: one action per public operation.  last records the   *)
(* call in progress and what it returns; the caller takes the result with  *)
(* Return before it makes its next call (a RotationResult is produced      *)
(* fresh per call and never stored).  The actions take the set M of model  *)
(* identifiers their inputs are drawn from.                                *)
(***************************************************************************)
Store == [mem |-> inMemoryState, file |-> stateFile]

Idle == Call("idle", NoConfig, NULL, <<>>, 0, NoRotation)

hookVars == <<AGENTS_WITH_ROTATION, hookLog>>

otherVars == <<parsedError, managers, files>>

\* no error parsed, no manager constructed, no path looked at
NoParse == [error |-> JSUndefined, result |-> defaultResult(""), done |-> FALSE]
NoManagers == [p \in {} |-> 0]
NoFiles == [p \in {} |-> 0]

\* AGENTS_WITH_ROTATION before createRotationHooks has run
NoAgents == [a \in {} |-> 0]

\* the events an observer tells apart: session, agent and model of an
\* assistant message.updated event
EventKeys ==
  [sessionID : SessionIDs \cup {NULL}, agent : AgentNames, modelID : Models]

KeyOf(eventInput) ==
  [sessionID |-> eventInput.sessionID, agent |-> eventInput.agent,
   modelID |-> eventInput.modelID]

IsAssistantUpdate(eventInput) ==
  /\ eventInput.type = "message.updated"
  /\ eventInput.hasInfo
  /\ eventInput.role = "assistant"
  /\ KeyOf(eventInput) \in EventKeys

\* delivered: the keys of the assistant updates delivered so far, in order;
\* recorded: the keys (caller and model) for which recordUsage was invoked;
\* rotations: the keys for which an engine was asked to rotate and did
NoHookLog ==
  [event |-> NoEvent, calls |-> <<>>, delivered |-> <<>>, recorded |-> <<>>,
   rotations |-> <<>>]

\* how often k occurs in the sequence log
Count(log, k) == Cardinality({i \in 1..Len(log) : log[i] = k})

Init ==
  /\ inMemoryState = EmptyState
  /\ stateFile = NoFile
  /\ now = 0
  /\ last = Idle
  /\ AGENTS_WITH_ROTATION = NoAgents
  /\ hookLog = NoHookLog
  /\ parsedError = NoParse
  /\ managers = NoManagers
  /\ files = NoFiles

\* Counters stay within the bounds of the model
WithinBounds(st) ==
  \A k \in DOMAIN st.mem :
     /\ st.mem[k].callCount <= MaxCalls
     /\ st.mem[k].tokenCount <= MaxTokens

Commit(st, call) ==
  /\ WithinBounds(st)
  /\ inMemoryState' = st.mem
  /\ stateFile' = st.file
  /\ last' = call
  /\ UNCHANGED <<now, hookVars, otherVars>>

Return ==
  /\ last # Idle
  /\ last.op # "event"
  /\ last' = Idle
  /\ UNCHANGED <<inMemoryState, stateFile, now, hookVars, otherVars>>

Tick ==
  /\ last = Idle
  /\ now < MaxTime
  /\ now' = now + 1
  /\ UNCHANGED <<inMemoryState, stateFile, last, hookVars, otherVars>>

IncrementUsage(M) ==
  /\ last = Idle
  /\ \E model \in M, tokensUsed \in {UNDEFINED} \cup (1..MaxTokens) :
       Commit(incrementUsage(Store, model, tokensUsed, now),
           Call("incrementUsage", NoConfig, model, <<>>, tokensUsed, NoRotation))

MarkDepleted(M) ==
  /\ last = Idle
  /\ \E model \in M, cooldownMs \in 1..MaxCooldown :
       Commit(markDepleted(Store, model, cooldownMs, now),
           Call("markDepleted", NoConfig, model, <<>>, cooldownMs, NoRotation))

\* the call records whether the model was depleted before it, as 1 or 0
MarkAvailable(M) ==
  /\ last = Idle
  /\ \E model \in M :
       Commit(markAvailable(Store, model, now),
           Call("markAvailable", NoConfig, model, <<>>,
                IF isTracked(Store, model) /\ inMemoryState[model].depleted
                THEN 1 ELSE 0,
                NoRotation))

\* the reads of the store; the call records what was returned: for
\* isInCooldown the boolean as 1 or 0, for getModelState and getUsageStats
\* whether a record was returned, for getAllModels the number of keys
IsInCooldown(M) ==
  /\ last = Idle
  /\ \E model \in M :
       Commit(Store, Call("isInCooldown", NoConfig, model, <<>>,
                          IF isInCooldown(Store, model, now) THEN 1 ELSE 0,
                          NoRotation))

GetModelState(M) ==
  /\ last = Idle
  /\ \E model \in M :
       Commit(Store, Call("getModelState", NoConfig, model, <<>>,
                          Len(getModelState(Store, model)), NoRotation))

GetUsageStats(M) ==
  /\ last = Idle
  /\ \E model \in M :
       Commit(Store, Call("getUsageStats", NoConfig, model, <<>>,
                          Len(getUsageStats(Store, model)), NoRotation))

GetAllModels ==
  /\ last = Idle
  /\ Commit(Store, Call("getAllModels", NoConfig, NULL, <<>>,
                        Cardinality(getAllModels(Store)), NoRotation))

ResetUsage(M) ==
  /\ last = Idle
  /\ \E model \in M :
       Commit(resetUsage(Store, model, now),
           Call("resetUsage", NoConfig, model, <<>>, 0, NoRotation))

\* the call records pruned, the number of entries it deleted
PruneOldModels ==
  /\ last = Idle
  /\ LET st2 == pruneOldModels(Store, STATE_MAX_AGE_DAYS, now)
         pruned == Cardinality(DOMAIN inMemoryState \ DOMAIN st2.mem)
     IN Commit(st2, Call("pruneOldModels", NoConfig, NULL, <<>>, pruned,
                         NoRotation))

SelectAvailableModel(M) ==
  /\ last = Idle
  /\ \E models \in Pools(M) :
       LET r == selectAvailableModel(Store, models, now) IN
       Commit(r.st, Call("selectAvailableModel", NoConfig, r.model, models, 0,
                      NoRotation))

ShouldRotate(M) ==
  /\ last = Idle
  /\ \E config \in Configs, currentModel \in M, availableModels \in Pools(M) :
       LET r == shouldRotate(Store, config, currentModel, availableModels, now) IN
       Commit(r.st, Call("shouldRotate", config, currentModel, availableModels,
                      0, r.result))

\* the call's arg is the number of records its prune removed
RotateOnError(M) ==
  /\ last = Idle
  /\ \E config \in Configs, currentModel \in M, availableModels \in Pools(M) :
       LET r == rotateOnError(Store, config, currentModel, availableModels, now) IN
       Commit(r.st, Call("rotateOnError", config, currentModel, availableModels,
                      Cardinality(DOMAIN inMemoryState \ DOMAIN r.st.mem),
                      r.result))

\* engine.recordUsage(currentModel, tokensUsed): the caller's second argument
\* has no parameter to land in
RecordUsage(M) ==
  /\ last = Idle
  /\ \E config \in Configs, model \in M,
        tokensUsed \in {UNDEFINED} \cup (1..MaxTokens) :
       Commit(recordUsage(Store, config, model, now),
           Call("recordUsage", config, model, <<>>, tokensUsed, NoRotation))

\* the call records the number of models it marked available
ResetCooldowns ==
  /\ last = Idle
  /\ Commit(resetCooldowns(Store, now),
         Call("resetCooldowns", NoConfig, NULL, <<>>,
              Cardinality({m \in DOMAIN inMemoryState :
                             /\ inMemoryState[m].inCooldown
                             /\ ~inMemoryState[m].depleted}),
              NoRotation))

\* the call records the boolean returned as 1 or 0
IsFullyDepleted(M) ==
  /\ last = Idle
  /\ \E availableModels \in Pools(M) :
       Commit(Store, Call("isFullyDepleted", NoConfig, NULL, availableModels,
                          IF isFullyDepleted(Store, availableModels) THEN 1 ELSE 0,
                          NoRotation))

GetNextModel(M) ==
  /\ last = Idle
  /\ \E availableModels \in Pools(M) :
       LET r == getNextModel(Store, availableModels, now) IN
       Commit(r.st, Call("getNextModel", NoConfig, r.model, availableModels, 0,
                      NoRotation))

Next ==
  \/ Return
  \/ Tick
  \/ IncrementUsage(Models)
  \/ MarkDepleted(Models)
  \/ MarkAvailable(Models)
  \/ ResetUsage(Models)
  \/ PruneOldModels
  \/ SelectAvailableModel(Models)
  \/ ShouldRotate(Models)
  \/ RotateOnError(Models)
  \/ RecordUsage(Models)
  \/ ResetCooldowns
  \/ IsFullyDepleted(Models)
  \/ GetNextModel(Models)
  \/ IsInCooldown(Models)
  \/ GetModelState(Models)
  \/ GetUsageStats(Models)
  \/ GetAllModels

Spec == Init /\ [][Next]_vars

\* The engines of one host over pools of up to three models, with no clock
\* tick between the calls: the calls of one cooldown window.
PoolNext ==
  \/ Return
  \/ RecordUsage(PoolModels)
  \/ ShouldRotate(PoolModels)
  \/ RotateOnError(PoolModels)
  \/ GetNextModel(PoolModels)

PoolSpec == Init /\ [][PoolNext]_vars

\* The store used for pre-call selection over pools drawn from three models:
\* a record of a model outside the pool can be in the store when
\* selectAvailableModel runs.
SelectNext ==
  \/ Return
  \/ Tick
  \/ MarkDepleted(PoolModels)
  \/ MarkAvailable(PoolModels)
  \/ ResetUsage(PoolModels)
  \/ SelectAvailableModel(PoolModels)

SelectSpec == Init /\ [][SelectNext]_vars

\* The hook of one host: createRotationHooks has registered the agents, and
\* message events are delivered to its handler.
HookInit ==
  /\ inMemoryState = EmptyState
  /\ stateFile = NoFile
  /\ now = 0
  /\ last = Idle
  /\ AGENTS_WITH_ROTATION \in Registries
  /\ hookLog = NoHookLog
  /\ parsedError = NoParse
  /\ managers = NoManagers
  /\ files = NoFiles

HookEvent ==
  /\ last = Idle
  /\ \E eventInput \in HookEvents,
        messagesTokens \in {UNDEFINED} \cup (1..MaxTokens) :
       LET run == event(Store, AGENTS_WITH_ROTATION, eventInput,
                        messagesTokens, now)
           key == KeyOf(eventInput)
           counted == IsAssistantUpdate(eventInput)
       IN /\ counted => Len(hookLog.delivered) < MaxDeliveries
          /\ WithinBounds(run.st)
          /\ inMemoryState' = run.st.mem
          /\ stateFile' = run.st.file
          /\ last' = run.call
          /\ hookLog' =
               [event |-> eventInput,
                calls |-> run.calls,
                delivered |-> IF counted
                              THEN Append(hookLog.delivered, key)
                              ELSE hookLog.delivered,
                recorded |-> IF counted /\ "recordUsage" \in Range(run.calls)
                             THEN Append(hookLog.recorded, key)
                             ELSE hookLog.recorded,
                rotations |-> IF counted /\ run.call.result.rotated
                              THEN Append(hookLog.rotations, key)
                              ELSE hookLog.rotations]
          /\ UNCHANGED <<now, AGENTS_WITH_ROTATION, otherVars>>

\* the handler's promise resolves: the host goes on to its next event
HookReturn ==
  /\ last.op = "event"
  /\ last' = Idle
  /\ hookLog' = [hookLog EXCEPT !.event = NoEvent, !.calls = <<>>]
  /\ UNCHANGED <<inMemoryState, stateFile, now, AGENTS_WITH_ROTATION,
                    otherVars>>

HookNext ==
  \/ HookReturn
  \/ HookEvent

HookSpec == HookInit /\ [][HookNext]_vars

\* Two agents registered by createRotationHooks, each with its own engine
\* (config) and pool over the one shared state manager; the engines are
\* called one after the other within one cooldown window.
SharedInit ==
  /\ inMemoryState = EmptyState
  /\ stateFile = NoFile
  /\ now = 0
  /\ last = Idle
  /\ AGENTS_WITH_ROTATION \in [AgentNames -> RotationData]
  /\ hookLog = NoHookLog
  /\ parsedError = NoParse
  /\ managers = NoManagers
  /\ files = NoFiles

\* the key of a call made on the engine of agentName for model
CallerKey(agentName, model) ==
  [sessionID |-> NULL, agent |-> agentName, modelID |-> model]

\* rotationData.engine.recordUsage, were every engine to keep a state
\* manager of its own
EngineRecordUsage_OwnStore ==
  /\ last = Idle
  /\ Len(hookLog.recorded) < MaxLogged
  /\ \E agentName \in DOMAIN AGENTS_WITH_ROTATION, model \in Models :
       LET rotationData == AGENTS_WITH_ROTATION[agentName] IN
       /\ last' = Call("recordUsage", rotationData.config, model, <<>>,
                       UNDEFINED, NoRotation)
       /\ hookLog' = [hookLog EXCEPT
                        !.recorded = Append(@, CallerKey(agentName, model))]
       /\ UNCHANGED <<inMemoryState, stateFile, now, AGENTS_WITH_ROTATION,
                    otherVars>>

\* rotationData.engine.recordUsage(model)
EngineRecordUsage ==
  /\ last = Idle
  /\ Len(hookLog.recorded) < MaxLogged
  /\ \E agentName \in DOMAIN AGENTS_WITH_ROTATION, model \in Models :
       LET rotationData == AGENTS_WITH_ROTATION[agentName]
           st2 == recordUsage(Store, rotationData.config, model, now)
       IN /\ WithinBounds(st2)
          /\ inMemoryState' = st2.mem
          /\ stateFile' = st2.file
          /\ last' = Call("recordUsage", rotationData.config, model, <<>>,
                          UNDEFINED, NoRotation)
          /\ hookLog' = [hookLog EXCEPT
                           !.recorded = Append(@, CallerKey(agentName, model))]
          /\ UNCHANGED <<now, AGENTS_WITH_ROTATION, otherVars>>

\* the store and the log after a rotation call r made on the engine of
\* agentName
EngineRotated(agentName, op, currentModel, r) ==
  LET rotationData == AGENTS_WITH_ROTATION[agentName] IN
  /\ r.result.rotated => Len(hookLog.rotations) < MaxLogged
  /\ inMemoryState' = r.st.mem
  /\ stateFile' = r.st.file
  /\ last' = Call(op, rotationData.config, currentModel,
                  rotationData.availableModels, 0, r.result)
  /\ hookLog' = IF r.result.rotated
                THEN [hookLog EXCEPT
                        !.rotations = Append(@, CallerKey(agentName, currentModel))]
                ELSE hookLog
  /\ UNCHANGED <<now, AGENTS_WITH_ROTATION, otherVars>>

\* rotationData.engine.shouldRotate(currentModel, rotationData.availableModels)
EngineShouldRotate ==
  /\ last = Idle
  /\ \E agentName \in DOMAIN AGENTS_WITH_ROTATION, currentModel \in Models :
       LET rotationData == AGENTS_WITH_ROTATION[agentName] IN
       EngineRotated(agentName, "shouldRotate", currentModel,
          shouldRotate(Store, rotationData.config, currentModel,
                       rotationData.availableModels, now))

\* rotationData.engine.rotateOnError(currentModel, rotationData.availableModels)
EngineRotateOnError ==
  /\ last = Idle
  /\ \E agentName \in DOMAIN AGENTS_WITH_ROTATION, currentModel \in Models :
       LET rotationData == AGENTS_WITH_ROTATION[agentName] IN
       EngineRotated(agentName, "rotateOnError", currentModel,
          rotateOnError(Store, rotationData.config, currentModel,
                        rotationData.availableModels, now))

SharedNext ==
  \/ Return
  \/ EngineRecordUsage
  \/ EngineShouldRotate
  \/ EngineRotateOnError

SharedSpec == SharedInit /\ [][SharedNext]_vars

\* The ErrorParser on its own: the errors it is handed, objects with or
\* without a status, a message, a nested error and a model, and values that
\* are no objects.
Statuses == {JSUndefined, Num(429), Num(529), Num(500), Str("429")}
Messages ==
  {JSUndefined, Str(""), Str("Server temporarily busy"),
   Str("Rate limit exceeded"), Str("Quota Exhausted"),
   Str("The model does not exist"), Str("ProviderModelNotFoundError")}
NestedErrors ==
  {JSUndefined, JSNull, Str("boom"),
   Obj([type |-> Str("overloaded_error"),
        message |-> Str("Server temporarily busy")]),
   Obj([status |-> Str("RESOURCE_EXHAUSTED")]),
   Obj([code |-> Str("insufficient_quota")]),
   Obj([message |-> Str("Internal server error")]),
   Obj([message |-> Str("Resource exhausted")]),
   Obj([message |-> Str("Insufficient balance")]),
   Obj([type |-> Str("rate_limit_error"),
        message |-> Str("Rate limit exceeded"),
        code |-> Str("rate_limit_exceeded")]),
   Obj([status |-> Str("RESOURCE_EXHAUSTED"),
        type |-> Str("rate_limit_error")]),
   Obj([code |-> Str("insufficient_funds")]),
   Obj([type |-> Str("not_found_error"), code |-> Str("quota_exceeded")]),
   Obj([name |-> Str("ProviderModelNotFoundError"),
        message |-> Str("Rate limit exceeded")]),
   Obj([type |-> Str("custom_error"), details |-> Str("Rate limit exceeded")]),
   Obj([data |->
          Obj([error |-> Obj([message |-> Str("Rate limit exceeded")])])])}
ModelFields == {JSUndefined, Str("claude-3")}

\* the object with the properties of fields that are not undefined
ObjectOf(fields) ==
  Obj([k \in {j \in DOMAIN fields : typeof(fields[j]) # "undefined"} |->
         fields[k]])

ErrorInputs ==
  {ObjectOf([status |-> s, message |-> m, error |-> e, model |-> md]) :
     s \in Statuses, m \in Messages, e \in NestedErrors, md \in ModelFields}
  \cup {JSUndefined, JSNull, Num(429), Str("429"), Str("Server temporarily busy"),
        Num(0), Bool(TRUE), Bool(FALSE), Str(""), Str("Model not found"),
        Str("Insufficient quota"), Str("Too many requests"),
        Str("ProviderModelNotFoundError")}

\* errorParser.parseError(error)
ParseError ==
  /\ ~parsedError.done
  /\ \E error \in ErrorInputs :
       parsedError' = [error |-> error, result |-> parseError(error),
                       done |-> TRUE]
  /\ UNCHANGED <<inMemoryState, stateFile, now, last, hookVars, managers, files>>

\* the caller has read the result
ParseReturn ==
  /\ parsedError.done
  /\ parsedError' = NoParse
  /\ UNCHANGED <<inMemoryState, stateFile, now, last, hookVars, managers, files>>

ParseNext ==
  \/ ParseError
  \/ ParseReturn

ParseSpec == Init /\ [][ParseNext]_vars

(***************************************************************************)
(* Persistence step by step.  A path holds no file, the whole JSON text of *)
(* a value, the beginning of such a text (a write that stopped early), or  *)
(* text that is no JSON.  A manager is at pc "new" before its constructor  *)
(* has run, "idle" between calls, and "write", "rename" or "cleanup" inside *)
(* saveState: before writeFileSync, before renameSync, and in the catch    *)
(* block.  raised: the call made last threw.  saved: how the saveState run  *)
(* last ended ("ok", "cleaned": failed and the temporary file is gone,     *)
(* "left": failed and the temporary file could not be removed).            *)
(***************************************************************************)
Processes == {"p1", "p2"}

Missing == [kind |-> "none", value |-> JSUndefined]
JSONText(v) == [kind |-> "json", value |-> v]
CutText(v) == [kind |-> "cut", value |-> v]
NotJSON == [kind |-> "text", value |-> JSUndefined]

\* the JSON value of a model's record: ModelRotationState, a date being the
\* string of its instant and an undefined tokenCount being left out
toJSON(rec) ==
  Obj([usage |->
         ObjectOf([callCount |-> Num(rec.callCount),
                   tokenCount |-> IF rec.tokenCount = UNDEFINED
                                  THEN JSUndefined ELSE Num(rec.tokenCount),
                   lastUsedAt |-> Str(rec.lastUsedAt),
                   inCooldown |-> Bool(rec.inCooldown),
                   cooldownUntil |-> IF rec.cooldownUntil = NULL_TIME
                                     THEN JSNull ELSE Str(rec.cooldownUntil)]),
       depleted |-> Bool(rec.depleted)])

\* the RotationState object of the records mem
stateObject(mem) == Obj([m \in DOMAIN mem |-> toJSON(mem[m])])

\* the records of a RotationState object
recordsOf(state) ==
  [m \in DOMAIN state.f |->
     LET usage == state.f[m].f.usage.f IN
     [callCount |-> usage.callCount.v,
      tokenCount |-> IF "tokenCount" \in DOMAIN usage
                     THEN usage.tokenCount.v ELSE UNDEFINED,
      lastUsedAt |-> usage.lastUsedAt.v,
      inCooldown |-> usage.inCooldown.v,
      cooldownUntil |-> IF usage.cooldownUntil.t = "null"
                        THEN NULL_TIME ELSE usage.cooldownUntil.v,
      depleted |-> state.f[m].f.depleted.v]]

\* JSON.stringify(this.inMemoryState, null, 2) + "\n"
stringify(value) == JSONText(value)

\* private inMemoryState: RotationState = {}; private stateLoaded = false
NewManager ==
  [inMemoryState |-> Obj(EmptyState), stateLoaded |-> FALSE, pc |-> "new",
   raised |-> FALSE, saved |-> "none"]

\* loadState, called by the constructor.  readable: readFileSync does not
\* throw.  JSON.parse throws on text that is no whole JSON text.
loadState(manager, fs, readable) ==
  IF manager.stateLoaded THEN manager
  ELSE [manager EXCEPT
          !.inMemoryState =
             IF fs.state.kind = "none" THEN Obj(EmptyState)
             ELSE IF ~readable THEN Obj(EmptyState)
             ELSE IF fs.state.kind = "json" THEN fs.state.value
             ELSE Obj(EmptyState),
          !.stateLoaded = TRUE]

\* this.inMemoryState[model] throws a TypeError when inMemoryState is null
throwsOnAccess(manager) == manager.inMemoryState.t # "object"

\* a call of updateModelState up to its saveState: mem2 is the state with the
\* updated record
updated(manager, mem2) ==
  IF throwsOnAccess(manager) THEN [manager EXCEPT !.raised = TRUE]
  ELSE [manager EXCEPT !.inMemoryState = stateObject(mem2), !.raised = FALSE,
                       !.pc = "write"]

\* the store value of a manager for the operations of the state manager
storeOf(manager) ==
  [mem |-> IF throwsOnAccess(manager) THEN EmptyState
           ELSE recordsOf(manager.inMemoryState),
   file |-> NoFile]

\* saveState, writeFileSync(tempPath, ...), were an error of the write not
\* thrown
saveWrite_NoThrow(manager, fs, outcome) ==
  [manager |-> [manager EXCEPT !.pc = "rename"],
   files |-> [fs EXCEPT !.temp =
                IF outcome = "ok" THEN stringify(manager.inMemoryState)
                ELSE IF outcome = "cut" THEN CutText(manager.inMemoryState)
                ELSE @]]

\* saveState, writeFileSync(tempPath, ...): the whole text is written, or
\* the write throws after a part of it ("cut"), or before the file is
\* opened ("none")
saveWrite(manager, fs, outcome) ==
  IF outcome = "ok"
  THEN [manager |-> [manager EXCEPT !.pc = "rename"],
        files |-> [fs EXCEPT !.temp = stringify(manager.inMemoryState)]]
  ELSE [manager |-> [manager EXCEPT !.pc = "cleanup"],
        files |-> IF outcome = "cut"
                  THEN [fs EXCEPT !.temp = CutText(manager.inMemoryState)]
                  ELSE fs]

\* saveState, renameSync(tempPath, this.stateFilePath): it throws when there
\* is no temporary file, and when the file system refuses (~ok)
saveRename(manager, fs, ok) ==
  IF ok /\ fs.temp.kind # "none"
  THEN [manager |-> [manager EXCEPT !.pc = "idle", !.saved = "ok"],
        files |-> [state |-> fs.temp, temp |-> Missing]]
  ELSE [manager |-> [manager EXCEPT !.pc = "cleanup"], files |-> fs]

\* saveState, the catch block, were the state file removed with the
\* temporary one
saveCleanup_RemovesStateFile(manager, fs, ok) ==
  [manager |-> [manager EXCEPT !.pc = "idle", !.saved = "cleaned"],
   files |-> [state |-> Missing, temp |-> Missing]]

\* saveState, the catch block: the error is logged, the temporary file is
\* unlinked if it is there, and an error of that is ignored (~ok)
saveCleanup(manager, fs, ok) ==
  IF fs.temp.kind = "none"
  THEN [manager |-> [manager EXCEPT !.pc = "idle", !.saved = "cleaned"],
        files |-> fs]
  ELSE IF ok
  THEN [manager |-> [manager EXCEPT !.pc = "idle", !.saved = "cleaned"],
        files |-> [fs EXCEPT !.temp = Missing]]
  ELSE [manager |-> [manager EXCEPT !.pc = "idle", !.saved = "left"],
        files |-> fs]

\* the state files found in the config directory when the first manager is
\* constructed: none, one written by an earlier run, one cut short, text
\* that is no JSON, and the JSON text null
InitialFiles ==
  {Missing,
   JSONText(stateObject([m \in {"a"} |-> [createEmptyModelState(0) EXCEPT
                                            !.callCount = 1]])),
   CutText(stateObject([m \in {"a"} |-> createEmptyModelState(0)])),
   NotJSON,
   JSONText(JSNull)}

\* the managers P of the processes started on one config directory
FileInit(P) ==
  /\ inMemoryState = EmptyState
  /\ stateFile = NoFile
  /\ now = 0
  /\ last = Idle
  /\ AGENTS_WITH_ROTATION = NoAgents
  /\ hookLog = NoHookLog
  /\ parsedError = NoParse
  /\ managers = [p \in P |-> NewManager]
  /\ files \in [state : InitialFiles, temp : {Missing}]

\* what the steps of the managers leave alone
fileFrame == <<inMemoryState, stateFile, now, last, hookVars, parsedError>>

\* new RotationStateManager(configDir)
Construct(P) ==
  \E p \in P, readable \in BOOLEAN :
     /\ managers[p].pc = "new"
     /\ managers' = [managers EXCEPT
                       ![p] = [loadState(@, files, readable) EXCEPT !.pc = "idle"]]
     /\ UNCHANGED <<files, fileFrame>>

\* getModelState(model)
ManagerGetModelState(P, M) ==
  \E p \in P, model \in M :
     /\ managers[p].pc = "idle"
     /\ managers' = [managers EXCEPT
                       ![p].raised = throwsOnAccess(managers[p])]
     /\ UNCHANGED <<files, fileFrame>>

\* incrementUsage(model), up to saveState
ManagerIncrementUsage(P, M) ==
  \E p \in P, model \in M :
     LET st2 == incrementUsage(storeOf(managers[p]), model, UNDEFINED, now) IN
     /\ managers[p].pc = "idle"
     /\ WithinBounds(st2)
     /\ managers' = [managers EXCEPT ![p] = updated(@, st2.mem)]
     /\ UNCHANGED <<files, fileFrame>>

\* markDepleted(model, cooldownMs), up to saveState
ManagerMarkDepleted(P, M) ==
  \E p \in P, model \in M, cooldownMs \in 1..MaxCooldown :
     LET st2 == markDepleted(storeOf(managers[p]), model, cooldownMs, now) IN
     /\ managers[p].pc = "idle"
     /\ managers' = [managers EXCEPT ![p] = updated(@, st2.mem)]
     /\ UNCHANGED <<files, fileFrame>>

\* the steps of saveState
SaveWrite(P) ==
  \E p \in P, outcome \in {"ok", "cut", "none"} :
     LET r == saveWrite(managers[p], files, outcome) IN
     /\ managers[p].pc = "write"
     /\ managers' = [managers EXCEPT ![p] = r.manager]
     /\ files' = r.files
     /\ UNCHANGED fileFrame

SaveRename(P) ==
  \E p \in P, ok \in BOOLEAN :
     LET r == saveRename(managers[p], files, ok) IN
     /\ managers[p].pc = "rename"
     /\ managers' = [managers EXCEPT ![p] = r.manager]
     /\ files' = r.files
     /\ UNCHANGED fileFrame

SaveCleanup(P) ==
  \E p \in P, ok \in BOOLEAN :
     LET r == saveCleanup(managers[p], files, ok) IN
     /\ managers[p].pc = "cleanup"
     /\ managers' = [managers EXCEPT ![p] = r.manager]
     /\ files' = r.files
     /\ UNCHANGED fileFrame

\* One process: its manager over the two models.
FileNext ==
  \/ Construct({"p1"})
  \/ ManagerGetModelState({"p1"}, Models)
  \/ ManagerIncrementUsage({"p1"}, Models)
  \/ ManagerMarkDepleted({"p1"}, Models)
  \/ SaveWrite({"p1"})
  \/ SaveRename({"p1"})
  \/ SaveCleanup({"p1"})

FileSpec == FileInit({"p1"}) /\ [][FileNext]_vars

\* Two processes on the same config directory, each with the manager it
\* constructed, over one model.
RaceNext ==
  \/ Construct(Processes)
  \/ ManagerGetModelState(Processes, {"a"})
  \/ ManagerIncrementUsage(Processes, {"a"})
  \/ ManagerMarkDepleted(Processes, {"a"})
  \/ SaveWrite(Processes)
  \/ SaveRename(Processes)
  \/ SaveCleanup(Processes)

RaceSpec == FileInit(Processes) /\ [][RaceNext]_vars

(***************************************************************************)
(* Properties.  A step from Idle to a call is the call being made: the     *)
(* unprimed variables are the store before it, the primed ones the store   *)
(* after it and what it returned.                                          *)
(***************************************************************************)
IsRotation(call) == call.op \in {"shouldRotate", "rotateOnError"}

\* The rotation is attempted: always by rotateOnError, by shouldRotate when
\* the tracked call count has reached the limit
Attempts(call, mem) ==
  /\ IsRotation(call)
  /\ call.config.enabled
  /\ Len(call.pool) >= 2
  /\ \/ call.op = "rotateOnError"
     \/ /\ call.model \in DOMAIN mem
        /\ call.config.limitType = "calls"
        /\ mem[call.model].callCount >= call.config.limitValue

Untracked(mem, m) == m \notin DOMAIN mem
Depleted(mem, m) == m \in DOMAIN mem /\ mem[m].depleted
ActiveCooldown(mem, m, t) ==
  /\ m \in DOMAIN mem
  /\ mem[m].inCooldown
  /\ mem[m].cooldownUntil # NULL_TIME
  /\ t < mem[m].cooldownUntil
ExpiredCooldown(mem, m, t) ==
  /\ m \in DOMAIN mem
  /\ mem[m].inCooldown
  /\ mem[m].cooldownUntil # NULL_TIME
  /\ t >= mem[m].cooldownUntil
Available(mem, m, t) ==
  Untracked(mem, m) \/ (~mem[m].depleted /\ ~ActiveCooldown(mem, m, t))

PositionOf(m, pool) == CHOOSE i \in 1..Len(pool) : pool[i] = m

\* C1: with the config disabled or a pool of at most one member, shouldRotate
\* and rotateOnError both return rotated=false, nextModel=null,
\* allDepleted=false, whatever the store holds.
C1_NoRotationWhenDisabledOrSmallPool ==
  (IsRotation(last) /\ (~last.config.enabled \/ Len(last.pool) <= 1))
    => /\ last.result.rotated = FALSE
       /\ last.result.nextModel = NULL
       /\ last.result.allDepleted = FALSE

\* an enabled engine asked to rotate away from a depleted model over a pool
\* of one
C1_Witness ==
  /\ last.op = "rotateOnError"
  /\ last.config.enabled
  /\ Len(last.pool) = 1
  /\ Depleted(inMemoryState, last.model)
  /\ last.result.rotated = FALSE

\* C2: with every member of a pool of n >= 2 available, rotateOnError away
\* from pool[i] returns the member after it, wrapping from the last to the
\* first.
C2_RoundRobinNext ==
  [][(/\ last = Idle
      /\ last'.op = "rotateOnError"
      /\ last'.config.enabled
      /\ Len(last'.pool) >= 2
      /\ last'.model \in Range(last'.pool)
      /\ \A m \in Range(last'.pool) : Available(inMemoryState, m, now))
     => last'.result.nextModel =
          last'.pool[(PositionOf(last'.model, last'.pool) % Len(last'.pool)) + 1]
    ]_vars

\* C3: a rotation that found a next model never returns the model it rotates
\* away from.
C3_NeverReturnsCurrent ==
  (/\ IsRotation(last)
   /\ Len(last.pool) >= 2
   /\ last.model \in Range(last.pool)
   /\ last.result.rotated
   /\ ~last.result.allDepleted)
    => last.result.nextModel # last.model

\* C4: repeated rotations visit the pool in order.  The k-th call of the run
\* rotates away from pool[k] with the members before it depleted by the
\* earlier calls and the others available: it returns pool[k+1], and the
\* n-th call reports allDepleted with no next model.
C4_RoundRobinRun ==
  [][(/\ last = Idle
      /\ last'.op = "rotateOnError"
      /\ last'.config.enabled
      /\ Len(last'.pool) >= 2
      /\ last'.model \in Range(last'.pool)
      /\ \A j \in 1..Len(last'.pool) :
           IF j < PositionOf(last'.model, last'.pool)
           THEN /\ Depleted(inMemoryState, last'.pool[j])
                /\ ActiveCooldown(inMemoryState, last'.pool[j], now)
           ELSE Available(inMemoryState, last'.pool[j], now))
     => LET k == PositionOf(last'.model, last'.pool) IN
        IF k < Len(last'.pool)
        THEN /\ last'.result.nextModel = last'.pool[k + 1]
             /\ ~last'.result.allDepleted
        ELSE /\ last'.result.nextModel = NULL
             /\ last'.result.allDepleted
    ]_vars

\* C5: the model a rotation returns was, when the pool was scanned, untracked
\* or neither depleted nor in an unexpired cooldown: depleted and cooling
\* members are passed over.
C5_NextModelWasAvailable ==
  [][(/\ last = Idle
      /\ IsRotation(last')
      /\ last'.result.rotated
      /\ last'.result.nextModel # NULL)
     => /\ last'.result.nextModel \in Range(last'.pool)
        /\ Available(inMemoryState, last'.result.nextModel, now)
    ]_vars

\* a rotation away from b over <<a, b>> that passed over a, depleted and
\* still cooling, and returned b
C5_Witness ==
  /\ last.op = "rotateOnError"
  /\ last.pool = <<"a", "b">>
  /\ last.model = "b"
  /\ last.result.nextModel = "b"
  /\ Depleted(inMemoryState, "a")
  /\ ActiveCooldown(inMemoryState, "a", now)

\* C6: when every member of a pool of n >= 2 is depleted before an enabled
\* engine attempts a rotation, the result is rotated=true, nextModel=null,
\* allDepleted=true, and every member is depleted afterwards.
C6_DepletionTotality ==
  [][(/\ last = Idle
      /\ Attempts(last', inMemoryState)
      /\ \A m \in Range(last'.pool) : Depleted(inMemoryState, m))
     => /\ last'.result.rotated
        /\ last'.result.nextModel = NULL
        /\ last'.result.allDepleted
        /\ \A m \in Range(last'.pool) : Depleted(inMemoryState', m)
    ]_vars

\* a rotation reporting allDepleted over two members that were both depleted
\* at an earlier time, one of them with its cooldown over
C6_Witness ==
  /\ last.op = "rotateOnError"
  /\ Len(last.pool) = 2
  /\ last.result.allDepleted
  /\ \A m \in Range(last.pool) :
       Depleted(inMemoryState, m) /\ inMemoryState[m].lastUsedAt < now
  /\ \E m \in Range(last.pool) : ExpiredCooldown(inMemoryState, m, now)

\* the first member of the pool that is not depleted with an unexpired
\* cooldown: the member a selection is to take
RECURSIVE FirstCandidate(_, _, _, _)
FirstCandidate(mem, pool, i, t) ==
  IF i > Len(pool) THEN NULL
  ELSE IF Depleted(mem, pool[i]) /\ ActiveCooldown(mem, pool[i], t)
       THEN FirstCandidate(mem, pool, i + 1, t)
       ELSE pool[i]

\* C7: when getNextModel comes to select a model that is depleted and flagged
\* inCooldown with its cooldown over, it returns that model and leaves it
\* with depleted=false, inCooldown=false, callCount=0 and no tokenCount.
C7_ReactivationResetsCounters ==
  [][(/\ last = Idle
      /\ last'.op = "getNextModel"
      /\ FirstCandidate(inMemoryState, last'.pool, 1, now) # NULL
      /\ LET m == FirstCandidate(inMemoryState, last'.pool, 1, now) IN
           Depleted(inMemoryState, m) /\ ExpiredCooldown(inMemoryState, m, now))
     => LET m == FirstCandidate(inMemoryState, last'.pool, 1, now) IN
        /\ last'.model = m
        /\ m \in DOMAIN inMemoryState'
        /\ ~inMemoryState'[m].depleted
        /\ ~inMemoryState'[m].inCooldown
        /\ inMemoryState'[m].callCount = 0
        /\ inMemoryState'[m].tokenCount = UNDEFINED
    ]_vars

\* C8: depletion is reversible.  A depleted model whose cooldown is over,
\* the other members of the pool being depleted with unexpired cooldowns, is
\* taken by the next selection over that pool and is available afterwards.
C8_DepletionReversible ==
  [][(/\ last = Idle
      /\ last'.op \in {"getNextModel", "selectAvailableModel"}
      /\ \E m \in Range(last'.pool) :
           /\ Depleted(inMemoryState, m)
           /\ ExpiredCooldown(inMemoryState, m, now)
           /\ \A o \in Range(last'.pool) \ {m} :
                Depleted(inMemoryState, o) /\ ActiveCooldown(inMemoryState, o, now))
     => /\ last'.model # NULL
        /\ Depleted(inMemoryState, last'.model)
        /\ ExpiredCooldown(inMemoryState, last'.model, now)
        /\ Available(inMemoryState', last'.model, now')
        /\ ~Untracked(inMemoryState', last'.model)
    ]_vars

\* C9: no tracked model has depleted=false together with inCooldown=true and
\* a cooldownUntil still in the future.
C9_NoCooldownWithoutDepletion ==
  \A m \in DOMAIN inMemoryState :
     ~(~inMemoryState[m].depleted /\ ActiveCooldown(inMemoryState, m, now))

\* the cooldown a call applies: its argument for markDepleted, the engine's
\* cooldownMs otherwise
CooldownOf(call) ==
  IF call.op = "markDepleted" THEN call.arg ELSE call.config.cooldownMs

\* C10: inCooldown=true implies cooldownUntil is set, and whenever a call
\* sets a model's cooldown, cooldownUntil is the time of the call plus the
\* cooldown duration, which is in the future.
C10_CooldownUntilSet ==
  /\ [](\A m \in DOMAIN inMemoryState :
          inMemoryState[m].inCooldown => inMemoryState[m].cooldownUntil # NULL_TIME)
  /\ [][\A m \in DOMAIN inMemoryState' :
          (/\ inMemoryState'[m].inCooldown
           /\ \/ m \notin DOMAIN inMemoryState
              \/ ~inMemoryState[m].inCooldown
              \/ inMemoryState[m].cooldownUntil # inMemoryState'[m].cooldownUntil)
          => /\ inMemoryState'[m].cooldownUntil = now + CooldownOf(last')
             /\ inMemoryState'[m].cooldownUntil > now
      ]_vars

\* a rotation after the clock has advanced left the model it rotated away
\* from cooling until the time of the call plus the engine's cooldown
C10_Witness ==
  /\ last.op = "rotateOnError"
  /\ now > 0
  /\ last.result.rotated
  /\ ~Untracked(inMemoryState, last.model)
  /\ inMemoryState[last.model].inCooldown
  /\ inMemoryState[last.model].lastUsedAt = now
  /\ inMemoryState[last.model].cooldownUntil = now + last.config.cooldownMs

\* the call count of a model, 0 when it is not tracked
CallCountOf(mem, m) == IF m \in DOMAIN mem THEN mem[m].callCount ELSE 0

\* the token count of a model, undefined when it is not tracked
TokenCountOf(mem, m) == IF m \in DOMAIN mem THEN mem[m].tokenCount ELSE UNDEFINED

\* C11: the engine does not deduplicate usage.  Every recordUsage call on an
\* enabled engine raises the model's callCount by exactly one (so k calls
\* raise it by k, two calls on an untracked model give 2); on a disabled
\* engine the call changes neither the state nor the file.
C11_RecordUsageCountsEveryCall ==
  [][(last = Idle /\ last'.op = "recordUsage")
     => IF last'.config.enabled
        THEN /\ last'.model \in DOMAIN inMemoryState'
             /\ inMemoryState'[last'.model].callCount
                  = CallCountOf(inMemoryState, last'.model) + 1
        ELSE /\ inMemoryState' = inMemoryState
             /\ stateFile' = stateFile
    ]_vars

\* a second recordUsage on the same model within one instant brought its
\* callCount to 2
C11_Witness ==
  /\ last.op = "recordUsage"
  /\ last.config.enabled
  /\ ~Untracked(inMemoryState, last.model)
  /\ inMemoryState[last.model].callCount = 2
  /\ inMemoryState[last.model].lastUsedAt = now
  /\ now = 0

\* C12: recordUsage(model, tokensUsed) on an enabled engine adds a numeric
\* tokensUsed to the model's tokenCount, starting the counter from 0 when it
\* is absent, and leaves tokenCount as it was when no tokensUsed is given.
C12_TokensThroughEngine ==
  [][(last = Idle /\ last'.op = "recordUsage" /\ last'.config.enabled)
     => /\ last'.model \in DOMAIN inMemoryState'
        /\ LET old == TokenCountOf(inMemoryState, last'.model) IN
           inMemoryState'[last'.model].tokenCount
             = IF last'.arg # UNDEFINED
               THEN (IF old = UNDEFINED THEN 0 ELSE old) + last'.arg
               ELSE old
    ]_vars

\* C13: when the same assistant message.updated event (same session, agent
\* and model, the agent registered for rotation) has been delivered to the
\* hook twice, the engine's recordUsage has been invoked for it exactly once.
C13_RecordsOncePerRepeatedEvent ==
  \A k \in EventKeys :
     (k.agent \in DOMAIN AGENTS_WITH_ROTATION /\ Count(hookLog.delivered, k) = 2)
       => Count(hookLog.recorded, k) = 1

\* the tracked models a prune at time t is to remove: last used before the
\* cutoff, not flagged inCooldown, and with callCount 0
Stale(mem, maxAge, t) ==
  {m \in DOMAIN mem : /\ mem[m].lastUsedAt < t - maxAge
                      /\ ~mem[m].inCooldown
                      /\ mem[m].callCount = 0}

\* C14: pruneOldModels(maxAge) removes exactly the tracked models whose
\* lastUsedAt is older than maxAge, whose inCooldown flag is false and whose
\* callCount is 0; every other model, however old, keeps its record
\* unchanged.
C14_PruneRemovesExactlyStale ==
  [][(last = Idle /\ last'.op = "pruneOldModels")
     => /\ DOMAIN inMemoryState'
             = DOMAIN inMemoryState \ Stale(inMemoryState, STATE_MAX_AGE_DAYS, now)
        /\ \A m \in DOMAIN inMemoryState' : inMemoryState'[m] = inMemoryState[m]
    ]_vars

\* a prune that deleted one entry and kept another that is as old but has
\* calls counted
C14_Witness ==
  /\ last.op = "pruneOldModels"
  /\ last.arg = 1
  /\ \E m \in DOMAIN inMemoryState :
       /\ inMemoryState[m].lastUsedAt < now - STATE_MAX_AGE_DAYS
       /\ inMemoryState[m].callCount > 0
       /\ ~inMemoryState[m].inCooldown

\* the calls of the log made for model m
LoggedFor(log, m) == {i \in 1..Len(log) : log[i].modelID = m}

\* the log holds no call made on the engine of agentName
NoneBy(log, agentName) == \A i \in 1..Len(log) : log[i].agent # agentName

\* C15: the state is shared by the callers.  With two engines over the one
\* store, a model's callCount is the number of recordUsage calls made for
\* it on any engine; when the calls recorded for r on the other engine
\* reach B's threshold, B.shouldRotate(r, pool) rotates; and a model
\* depleted by a rotation of the other engine is not returned by B's scan.
C15_StateSharedAcrossCallers ==
  /\ [](\A m \in Models :
          CallCountOf(inMemoryState, m)
            = Cardinality(LoggedFor(hookLog.recorded, m)))
  /\ [][\A B \in DOMAIN AGENTS_WITH_ROTATION :
          (/\ last = Idle
           /\ IsRotation(last')
           /\ last'.config = AGENTS_WITH_ROTATION[B].config
           /\ last'.pool = AGENTS_WITH_ROTATION[B].availableModels
           /\ NoneBy(hookLog.recorded, B)
           /\ NoneBy(hookLog.rotations, B))
          => /\ (/\ last'.op = "shouldRotate"
                 /\ last'.config.limitType = "calls"
                 /\ Len(last'.pool) >= 2
                 /\ Cardinality(LoggedFor(hookLog.recorded, last'.model))
                      >= last'.config.limitValue)
                => last'.result.rotated
             /\ \A m \in Models :
                  Depleted(inMemoryState, m) => last'.result.nextModel # m
      ]_vars

\* B.shouldRotate rotated on the strength of two calls recorded on the
\* engine of another agent, whose config and pool are not B's
C15_Witness ==
  \E A, B \in DOMAIN AGENTS_WITH_ROTATION :
     /\ A # B
     /\ AGENTS_WITH_ROTATION[A].config # AGENTS_WITH_ROTATION[B].config
     /\ AGENTS_WITH_ROTATION[A].availableModels
          # AGENTS_WITH_ROTATION[B].availableModels
     /\ last.op = "shouldRotate"
     /\ last.config = AGENTS_WITH_ROTATION[B].config
     /\ last.pool = AGENTS_WITH_ROTATION[B].availableModels
     /\ last.config.limitValue = 2
     /\ last.result.rotated
     /\ Len(hookLog.recorded) = 2
     /\ \A i \in 1..Len(hookLog.recorded) :
          hookLog.recorded[i] = CallerKey(A, last.model)
     /\ hookLog.rotations = <<CallerKey(B, last.model)>>

\* C16: on an enabled engine with a pool of at least two, shouldRotate
\* rotates if and only if the current model is tracked, the limit type is
\* calls and callCount >= limitValue; otherwise (untracked, below the
\* threshold, or limit type tokens whatever the token count) it returns
\* rotated=false, nextModel=null, reason=null, allDepleted=false.
C16_ShouldRotateIffCallLimitReached ==
  [][(/\ last = Idle
      /\ last'.op = "shouldRotate"
      /\ last'.config.enabled
      /\ Len(last'.pool) >= 2)
     => IF /\ last'.model \in DOMAIN inMemoryState
           /\ last'.config.limitType = "calls"
           /\ inMemoryState[last'.model].callCount >= last'.config.limitValue
        THEN last'.result.rotated
        ELSE last'.result = NoRotation
    ]_vars

\* shouldRotate with limit type tokens returned the no-op result for a
\* model whose call count and token count have both reached the limit
C16_Witness ==
  /\ last.op = "shouldRotate"
  /\ last.config.enabled
  /\ last.config.limitType = "tokens"
  /\ Len(last.pool) >= 2
  /\ ~Untracked(inMemoryState, last.model)
  /\ inMemoryState[last.model].tokenCount >= last.config.limitValue
  /\ inMemoryState[last.model].callCount >= last.config.limitValue
  /\ last.result = NoRotation

\* C17: on an enabled engine with a pool of at least two, rotateOnError
\* always attempts the rotation: it returns rotated=true with the reason
\* "API quota/rate limit error", whatever the current model's usage
\* counters are.
C17_RotateOnErrorUnconditional ==
  (/\ last.op = "rotateOnError"
   /\ last.config.enabled
   /\ Len(last.pool) >= 2)
    => /\ last.result.rotated
       /\ last.result.reason = ROTATE_ON_ERROR_REASON

\* a rotation on error away from a model with no call on record, under a
\* limit of two calls
C17_Witness ==
  /\ last.op = "rotateOnError"
  /\ last.config.enabled
  /\ last.config.limitValue = 2
  /\ Len(last.pool) >= 2
  /\ CallCountOf(inMemoryState, last.model) = 0
  /\ last.result.rotated
  /\ last.result.reason = ROTATE_ON_ERROR_REASON

\* the step is a rotation that found a next model
FoundNext(call) ==
  IsRotation(call) /\ call.result.rotated /\ call.result.nextModel # NULL

\* what a rotation that found a next model does to currentModel: depleted,
\* cooling until the time of the call plus cooldownMs, counters as before
CurrentDepleted(mem, mem2, call, t) ==
  /\ call.model \in DOMAIN mem2
  /\ mem2[call.model].depleted
  /\ mem2[call.model].inCooldown
  /\ mem2[call.model].cooldownUntil = t + call.config.cooldownMs
  /\ mem2[call.model].callCount = CallCountOf(mem, call.model)
  /\ mem2[call.model].tokenCount = TokenCountOf(mem, call.model)

\* m is tracked or not as before, with the same record
SameRecord(mem, mem2, m) ==
  /\ m \in DOMAIN mem <=> m \in DOMAIN mem2
  /\ m \in DOMAIN mem => mem2[m] = mem[m]

\* C18 as stated: a rotation that found a next model marks currentModel
\* depleted with inCooldown=true and cooldownUntil = now + cooldownMs,
\* leaves its callCount and tokenCount unchanged, and leaves the record of
\* every other pool member unchanged.
C18_RotationFrame ==
  [][(last = Idle /\ FoundNext(last'))
     => /\ CurrentDepleted(inMemoryState, inMemoryState', last', now)
        /\ \A m \in Range(last'.pool) \ {last'.model} :
             SameRecord(inMemoryState, inMemoryState', m)
    ]_vars

\* C18, amended: as stated, except that a pool member whose record the
\* prune at the start of the rotation finds stale (last used before the
\* horizon, not flagged inCooldown, callCount 0) loses its record; the
\* record of every other pool member but currentModel is unchanged.
C18_RotationFrameButStale ==
  [][(last = Idle /\ FoundNext(last'))
     => /\ CurrentDepleted(inMemoryState, inMemoryState', last', now)
        /\ \A m \in Range(last'.pool) \ {last'.model} :
             IF m \in Stale(inMemoryState, STATE_MAX_AGE_DAYS, now)
             THEN m \notin DOMAIN inMemoryState'
             ELSE SameRecord(inMemoryState, inMemoryState', m)
    ]_vars

\* a rotation away from a model with calls on record that returned the
\* other pool member, itself tracked with calls on record and not depleted
C18_Witness ==
  /\ FoundNext(last)
  /\ Len(last.pool) = 2
  /\ last.model \in Range(last.pool)
  /\ last.result.nextModel # last.model
  /\ Depleted(inMemoryState, last.model)
  /\ inMemoryState[last.model].callCount > 0
  /\ inMemoryState[last.model].cooldownUntil = now + last.config.cooldownMs
  /\ ~Untracked(inMemoryState, last.result.nextModel)
  /\ inMemoryState[last.result.nextModel].callCount > 0
  /\ ~inMemoryState[last.result.nextModel].depleted

\* the rotation is attempted and the scan finds no pool member available
NoneAvailable(call, mem, t) ==
  /\ Attempts(call, mem)
  /\ \A m \in Range(call.pool) : ~Available(mem, m, t)

\* C19 as stated: when a rotation finds no available model, the result has
\* allDepleted=true and nextModel=null, and every pool member ends depleted
\* with inCooldown=true and cooldownUntil = time of the call + cooldownMs.
C19_AllDepletedSameCooldown ==
  [][(last = Idle /\ NoneAvailable(last', inMemoryState, now))
     => /\ last'.result.allDepleted
        /\ last'.result.nextModel = NULL
        /\ \A m \in Range(last'.pool) :
             /\ Depleted(inMemoryState', m)
             /\ inMemoryState'[m].inCooldown
             /\ inMemoryState'[m].cooldownUntil = now + last'.config.cooldownMs
    ]_vars

\* C19, amended: when a rotation finds no available model, the result has
\* allDepleted=true and nextModel=null and every pool member ends depleted
\* with inCooldown=true; a member that was not depleted gets
\* cooldownUntil = time of the call + cooldownMs, a member that was already
\* depleted keeps its record, cooldownUntil included.
C19_AllDepletedNewlyMarkedCooldown ==
  [][(last = Idle /\ NoneAvailable(last', inMemoryState, now))
     => /\ last'.result.allDepleted
        /\ last'.result.nextModel = NULL
        /\ \A m \in Range(last'.pool) :
             /\ Depleted(inMemoryState', m)
             /\ inMemoryState'[m].inCooldown
             /\ IF Depleted(inMemoryState, m)
                THEN inMemoryState'[m] = inMemoryState[m]
                ELSE inMemoryState'[m].cooldownUntil
                       = now + last'.config.cooldownMs
    ]_vars

\* a rotation that found nothing over a pool of two: one member depleted
\* earlier, its cooldown over and kept, the other marked at the time of the
\* call
C19_Witness ==
  /\ IsRotation(last)
  /\ last.result.allDepleted
  /\ Len(last.pool) = 2
  /\ \A m \in Range(last.pool) : Depleted(inMemoryState, m)
  /\ \E m \in Range(last.pool) :
       /\ inMemoryState[m].lastUsedAt < now
       /\ inMemoryState[m].cooldownUntil <= now
  /\ \E m \in Range(last.pool) :
       /\ inMemoryState[m].lastUsedAt = now
       /\ inMemoryState[m].cooldownUntil = now + last.config.cooldownMs

\* C20: isFullyDepleted(pool) returns true if and only if every pool member
\* is tracked and depleted (so true for the empty pool, false as soon as a
\* member is untracked or not depleted), and the call changes neither the
\* state nor the file.
C20_IsFullyDepletedIffAllDepleted ==
  [][(last = Idle /\ last'.op = "isFullyDepleted")
     => /\ last'.arg = 1
             <=> \A m \in Range(last'.pool) : Depleted(inMemoryState, m)
        /\ last'.arg \in {0, 1}
        /\ inMemoryState' = inMemoryState
        /\ stateFile' = stateFile
    ]_vars

\* isFullyDepleted returned false over a pool of one depleted member and
\* one untracked member
C20_Witness ==
  /\ last.op = "isFullyDepleted"
  /\ last.arg = 0
  /\ Len(last.pool) = 2
  /\ \E m \in Range(last.pool) : Depleted(inMemoryState, m)
  /\ \E m \in Range(last.pool) : Untracked(inMemoryState, m)

\* a record with its flags cleared as markAvailable clears them
MarkedAvailable(rec) ==
  [rec EXCEPT !.inCooldown = FALSE, !.cooldownUntil = NULL_TIME,
              !.depleted = FALSE]

\* m is flagged inCooldown and not depleted
CoolingNotDepleted(mem, m) ==
  m \in DOMAIN mem /\ mem[m].inCooldown /\ ~mem[m].depleted

\* C21: resetCooldowns marks available every tracked model that is flagged
\* inCooldown and not depleted, so that afterwards no tracked model has
\* inCooldown=true with depleted=false; a depleted model (its cooldown
\* elapsed or not) and a model not in cooldown keep their record.
C21_ResetCooldownsClearsNonDepleted ==
  [][(last = Idle /\ last'.op = "resetCooldowns")
     => /\ DOMAIN inMemoryState' = DOMAIN inMemoryState
        /\ \A m \in DOMAIN inMemoryState :
             /\ ~CoolingNotDepleted(inMemoryState', m)
             /\ inMemoryState'[m] =
                  IF CoolingNotDepleted(inMemoryState, m)
                  THEN MarkedAvailable(inMemoryState[m])
                  ELSE inMemoryState[m]
    ]_vars

\* resetCooldowns marked one model available and left the other, depleted
\* with its cooldown elapsed, as it was
C21_Witness ==
  /\ last.op = "resetCooldowns"
  /\ last.arg = 1
  /\ \E m \in DOMAIN inMemoryState :
       /\ ~inMemoryState[m].inCooldown
       /\ ~inMemoryState[m].depleted
  /\ \E m \in DOMAIN inMemoryState :
       Depleted(inMemoryState, m) /\ ExpiredCooldown(inMemoryState, m, now)

\* C22: markAvailable(model) sets depleted=false, inCooldown=false and
\* cooldownUntil=null, leaves the model's callCount, tokenCount and
\* lastUsedAt as they were, and leaves every other model's record unchanged.
C22_MarkAvailableFrame ==
  [][(last = Idle /\ last'.op = "markAvailable")
     => LET m == last'.model IN
        /\ m \in DOMAIN inMemoryState'
        /\ ~inMemoryState'[m].depleted
        /\ ~inMemoryState'[m].inCooldown
        /\ inMemoryState'[m].cooldownUntil = NULL_TIME
        /\ inMemoryState'[m].callCount = CallCountOf(inMemoryState, m)
        /\ inMemoryState'[m].tokenCount = TokenCountOf(inMemoryState, m)
        /\ m \in DOMAIN inMemoryState
             => inMemoryState'[m].lastUsedAt = inMemoryState[m].lastUsedAt
        /\ \A k \in Models \ {m} : SameRecord(inMemoryState, inMemoryState', k)
    ]_vars

\* markAvailable on a depleted model with calls and tokens on record, last
\* used at an earlier time, while the other model is depleted
C22_Witness ==
  /\ last.op = "markAvailable"
  /\ last.arg = 1
  /\ inMemoryState[last.model].callCount > 0
  /\ inMemoryState[last.model].tokenCount # UNDEFINED
  /\ inMemoryState[last.model].lastUsedAt < now
  /\ ~inMemoryState[last.model].depleted
  /\ \E k \in Models \ {last.model} : Depleted(inMemoryState, k)

\* C23: isInCooldown(model) returns true exactly when the model is tracked,
\* flagged inCooldown and now < cooldownUntil, and changes neither the
\* in-memory state nor the state file: a model whose cooldown has elapsed
\* stays flagged inCooldown=true.
C23_IsInCooldownPureRead ==
  [][(last = Idle /\ last'.op = "isInCooldown")
     => LET m == last'.model IN
        /\ (last'.arg = 1) <=> (/\ m \in DOMAIN inMemoryState
                                /\ inMemoryState[m].inCooldown
                                /\ inMemoryState[m].cooldownUntil # NULL_TIME
                                /\ now < inMemoryState[m].cooldownUntil)
        /\ inMemoryState' = inMemoryState
        /\ stateFile' = stateFile
    ]_vars

\* isInCooldown returned false for a model whose cooldown has elapsed and
\* that is still flagged inCooldown
C23_Witness ==
  /\ last.op = "isInCooldown"
  /\ last.arg = 0
  /\ last.model \in DOMAIN inMemoryState
  /\ inMemoryState[last.model].inCooldown
  /\ inMemoryState[last.model].cooldownUntil # NULL_TIME
  /\ inMemoryState[last.model].cooldownUntil <= now

\* the reads of the store and of the engine
ReadOps ==
  {"getModelState", "getUsageStats", "isInCooldown", "getAllModels",
   "isFullyDepleted"}

\* pruneOldModels and the operations that start with it
PruningOps ==
  {"pruneOldModels", "selectAvailableModel", "shouldRotate", "rotateOnError",
   "getNextModel"}

\* C24: a tracked key leaves the state only through pruneOldModels, called
\* directly or at the start of a rotation or selection, and then the key was
\* stale; a read (getModelState, getUsageStats, isInCooldown, getAllModels,
\* isFullyDepleted) neither adds nor removes a key.
C24_KeysRemovedOnlyByPrune ==
  [][/\ \A m \in DOMAIN inMemoryState \ DOMAIN inMemoryState' :
          /\ last'.op \in PruningOps
          /\ m \in Stale(inMemoryState, STATE_MAX_AGE_DAYS, now)
     /\ last'.op \in ReadOps => DOMAIN inMemoryState' = DOMAIN inMemoryState
    ]_vars

\* a prune that removed both tracked keys
C24_Witness ==
  /\ last.op = "pruneOldModels"
  /\ last.arg = 2
  /\ inMemoryState = EmptyState

\* the errors of the events delivered that the classifier says trigger a
\* rotation
TriggeringErrors ==
  {e \in HookErrors : Truthy(e) /\ parseError(e).isRotationTriggering}

\* the classifier says the error of the event triggers a rotation
Triggering(eventInput) == eventInput.error \in TriggeringErrors

\* a message.updated event the handler is not to rotate for: no error, an
\* error that does not trigger, a role other than assistant, an agent with
\* no rotation, or no model id
NotForRotation(eventInput, registry) ==
  /\ eventInput.type = "message.updated"
  /\ \/ ~Triggering(eventInput)
     \/ eventInput.role # "assistant"
     \/ eventInput.agent \notin DOMAIN registry
     \/ eventInput.modelID \in {"", NULL}

\* C29: the event handler calls the engine's rotateOnError only after the
\* classifier returned isRotationTriggering=true for the error of that
\* event; for a message.updated event with no error, with an error that does
\* not trigger, with a role other than assistant, with an agent that has no
\* rotation or with an empty model id, no rotation is attempted and no
\* model is marked depleted.
C29_RotatesOnlyAfterTriggeringError ==
  [][(last = Idle /\ last'.op = "event")
     => /\ "rotateOnError" \in Range(hookLog'.calls)
             => Triggering(hookLog'.event)
        /\ NotForRotation(hookLog'.event, AGENTS_WITH_ROTATION)
             => /\ "rotateOnError" \notin Range(hookLog'.calls)
                /\ ~last'.result.rotated
                /\ \A m \in Models :
                     Depleted(inMemoryState', m) <=> Depleted(inMemoryState, m)
    ]_vars

\* an assistant event of the registered agent with an error that does not
\* trigger: its usage was recorded and nothing else was called, while a
\* model depleted by an earlier event stays the only one depleted
C29_Witness ==
  /\ last.op = "event"
  /\ hookLog.event.role = "assistant"
  /\ hookLog.event.agent \in DOMAIN AGENTS_WITH_ROTATION
  /\ hookLog.event.modelID \in Models
  /\ Truthy(hookLog.event.error)
  /\ ~Triggering(hookLog.event)
  /\ hookLog.calls = <<"recordUsage">>
  /\ Cardinality({m \in Models : Depleted(inMemoryState, m)}) = 1

\* C30: for every object whose status is the number 429 or 529, parseError
\* returns isRotationTriggering=true, whatever its other fields and its
\* message are.
C30_StatusCodeTriggers ==
  (/\ parsedError.done
   /\ typeof(Get(parsedError.error, "status")) = "number"
   /\ Get(parsedError.error, "status").v \in {429, 529})
    => parsedError.result.isRotationTriggering

\* parseError returned for a 529 whose nested error and message hold no
\* keyword and no quota or rate limit marker
C30_Witness ==
  /\ parsedError.done
  /\ parsedError.error =
       Obj([status |-> Num(529), message |-> Str("Server temporarily busy"),
            error |-> Str("boom")])
  /\ parsedError.result.isRotationTriggering
  /\ parsedError.result.errorType = "quota"

\* the step is one of the manager of p inside saveState that ends in a
\* failure: writeFileSync or renameSync throws, or the catch block ends
SaveFails(p) ==
  \/ managers[p].pc \in {"write", "rename"} /\ managers'[p].pc = "cleanup"
  \/ managers[p].pc = "cleanup" /\ managers'[p].pc = "idle"

\* the step is the renameSync of the manager of p, and it went through
SaveSucceeds(p) ==
  managers[p].pc = "rename" /\ managers'[p].pc = "idle"

\* C25: with one manager on the state file, saveState changes the state
\* file at one point only, the rename, and then to the whole serialized
\* state the manager has in memory, which is the one the save started with:
\* at no point of a save, failing or not, does the file get a partial
\* write; and when a failed save could remove the temporary file, that file
\* is gone.
C25_AtomicPersistence ==
  [][/\ files'.state # files.state
          => \E p \in DOMAIN managers :
                /\ SaveSucceeds(p)
                /\ files'.state = stringify(managers[p].inMemoryState)
                /\ managers'[p].inMemoryState = managers[p].inMemoryState
     /\ \A p \in DOMAIN managers :
          (/\ managers[p].pc = "cleanup"
           /\ managers'[p].pc = "idle"
           /\ managers'[p].saved = "cleaned")
            => files'.temp = Missing
    ]_vars

\* a save failed and the temporary file is gone, while the state file
\* holds the whole state of an earlier save of this manager, with both
\* models, and the memory is ahead of it
C25_Witness ==
  /\ managers["p1"].pc = "idle"
  /\ managers["p1"].saved = "cleaned"
  /\ files.temp = Missing
  /\ files.state.kind = "json"
  /\ files.state.value.t = "object"
  /\ DOMAIN files.state.value.f = Models
  /\ files.state # stringify(managers["p1"].inMemoryState)

\* C26: a failure of saveState inside a mutating call is not raised and
\* rolls nothing back: through the failing steps the in-memory state keeps
\* the update, the state file keeps its content and the call returns
\* normally; a save that goes through makes the state file the whole
\* in-memory state, whatever earlier saves failed.
C26_WriteFailureKeepsMemory ==
  [][\A p \in DOMAIN managers :
       /\ SaveFails(p)
            => /\ managers'[p].inMemoryState = managers[p].inMemoryState
               /\ files'.state = files.state
               /\ ~managers'[p].raised
       /\ SaveSucceeds(p)
            => /\ files'.state.kind = "json"
               /\ recordsOf(files'.state.value)
                    = recordsOf(managers'[p].inMemoryState)
               /\ ~managers'[p].raised
    ]_vars

\* a mutating call has returned after its save failed: the memory tracks
\* both models, the state file only the one of an earlier save
C26_Witness ==
  /\ managers["p1"].pc = "idle"
  /\ managers["p1"].saved \in {"cleaned", "left"}
  /\ ~managers["p1"].raised
  /\ DOMAIN managers["p1"].inMemoryState.f = Models
  /\ files.state.kind = "json"
  /\ files.state.value.t = "object"
  /\ Cardinality(DOMAIN files.state.value.f) = 1

\* the text is the JSON text of a state mapping
ValidStateText(text) == text.kind = "json" /\ text.value.t = "object"

\* C27: when the state file is absent, unreadable or holds no valid state
\* mapping (text that does not parse, or JSON that is no object of records),
\* the manager starts with the empty state, and no later operation raises.
C27_LoadToleratesMalformed ==
  /\ [](\A p \in DOMAIN managers : ~managers[p].raised)
  /\ [][\A p \in DOMAIN managers :
          (/\ managers[p].pc = "new"
           /\ managers'[p].pc = "idle"
           /\ ~ValidStateText(files.state))
            => managers'[p].inMemoryState = Obj(EmptyState)
       ]_vars

\* C28: with two managers on the same state file, whenever a save of one of
\* them goes through, the state file is the whole in-memory state of that
\* manager, and no step leaves the state file with a partial write.
C28_FileIsLastSaversState ==
  [][/\ \A p \in DOMAIN managers :
          SaveSucceeds(p)
            => files'.state = stringify(managers[p].inMemoryState)
     /\ files'.state.kind = "cut" => files.state.kind = "cut"
    ]_vars

\* C35: in every state reached from the empty store through the store's and
\* the engine's operations, every tracked model with depleted=true also has
\* inCooldown=true and a cooldownUntil that is not null.
C35_DepletedImpliesCooldown ==
  \A m \in DOMAIN inMemoryState :
     inMemoryState[m].depleted
       => /\ inMemoryState[m].inCooldown
          /\ inMemoryState[m].cooldownUntil # NULL_TIME

\* a rotation has just depleted its current model while another tracked model,
\* released earlier, is neither depleted nor in cooldown
C35_Witness ==
  /\ last.op = "rotateOnError"
  /\ last.result.rotated
  /\ Depleted(inMemoryState, last.model)
  /\ inMemoryState[last.model].inCooldown
  /\ \E m \in DOMAIN inMemoryState :
        /\ m # last.model
        /\ ~inMemoryState[m].depleted
        /\ ~inMemoryState[m].inCooldown
        /\ inMemoryState[m].cooldownUntil = NULL_TIME

\* C36: in every reachable state, every record that pruneOldModels(30) would
\* remove belongs to a model that is neither depleted nor in cooldown, and for
\* every pool the availability scan of a rotation finds the same model (or
\* none, the allDepleted verdict) on the store as it is and on the store
\* after the prune.
C36_PruneKeepsScanOutcome ==
  /\ \A m \in Stale(inMemoryState, STATE_MAX_AGE_DAYS, now) :
        /\ ~inMemoryState[m].depleted
        /\ ~isInCooldown(Store, m, now)
  /\ \A availableModels \in Pools(Models) :
        findNextAvailableModel(Store, availableModels, now).model
          = findScan(Store, availableModels, 1, now)

\* a rotation whose prune removed a record handed out a model other than the
\* current one while the current model's record was kept and depleted
C36_Witness ==
  /\ last.op = "rotateOnError"
  /\ last.arg >= 1
  /\ last.result.rotated
  /\ last.result.nextModel # NULL
  /\ last.result.nextModel # last.model
  /\ Untracked(inMemoryState, last.result.nextModel)
  /\ Depleted(inMemoryState, last.model)

\* C37: the RotationResult of every call of shouldRotate and rotateOnError is
\* well-formed: allDepleted=true implies rotated=true and nextModel=null;
\* rotated=true with allDepleted=false implies nextModel is a member of the
\* pool; rotated=false implies nextModel=null, reason=null and
\* allDepleted=false; rotated=true implies a reason that is not null.
C37_ResultWellFormed ==
  IsRotation(last) =>
    LET result == last.result IN
    /\ result.allDepleted => (result.rotated /\ result.nextModel = NULL)
    /\ (result.rotated /\ ~result.allDepleted)
         => result.nextModel \in Range(last.pool)
    /\ ~result.rotated => /\ result.nextModel = NULL
                          /\ result.reason = NULL
                          /\ ~result.allDepleted
    /\ result.rotated => result.reason # NULL

\* shouldRotate, at the limit, found every pool member depleted
C37_Witness ==
  /\ last.op = "shouldRotate"
  /\ Len(last.pool) = 2
  /\ last.result.rotated
  /\ last.result.allDepleted
  /\ last.result.nextModel = NULL
  /\ last.result.reason # NULL

\* C38: whenever shouldRotate or rotateOnError returns rotated=false, the
\* in-memory state and the state file after the call are the ones before it:
\* no model is marked depleted, none is pruned, nothing is written.
C38_NoOpDecisionChangesNothing ==
  [][ (IsRotation(last') /\ last = Idle /\ ~last'.result.rotated)
        => /\ inMemoryState' = inMemoryState
           /\ stateFile' = stateFile
    ]_vars

\* shouldRotate, enabled over a pool of two, returned rotated=false for a
\* tracked model below its threshold while the store held a stale record of
\* the other model
C38_Witness ==
  /\ last.op = "shouldRotate"
  /\ ~last.result.rotated
  /\ last.config.enabled
  /\ last.config.limitType = "calls"
  /\ Len(last.pool) = 2
  /\ last.model \in DOMAIN inMemoryState
  /\ inMemoryState[last.model].callCount >= 1
  /\ inMemoryState[last.model].callCount < last.config.limitValue
  /\ Stale(inMemoryState, STATE_MAX_AGE_DAYS, now) \ {last.model} # {}

\* C39: immediately after a rotation that returns rotated=true with a
\* nextModel that is not null, that nextModel is not marked depleted and is
\* not in cooldown in the store.
C39_NextModelUsable ==
  [][ (IsRotation(last') /\ last = Idle /\ last'.result.rotated
         /\ last'.result.nextModel # NULL)
        => /\ ~Depleted(inMemoryState', last'.result.nextModel)
           /\ ~ActiveCooldown(inMemoryState', last'.result.nextModel, now')
    ]_vars

\* a member selectAvailableModel takes: untracked, or with an elapsed
\* cooldown, or neither depleted nor in an active cooldown
Selectable(mem, m, t) == Available(mem, m, t) \/ ExpiredCooldown(mem, m, t)

FirstSelectable(mem, pool, t) ==
  pool[CHOOSE i \in 1..Len(pool) :
         /\ Selectable(mem, pool[i], t)
         /\ \A j \in 1..(i - 1) : ~Selectable(mem, pool[j], t)]

AllDepletedCooling(mem, pool, t) ==
  \A m \in Range(pool) : Depleted(mem, m) /\ ActiveCooldown(mem, m, t)

\* what selectAvailableModel returns, and the reactivation of a member picked
\* for its elapsed cooldown
SelectsInPoolOrder ==
  /\ Len(last'.pool) >= 1 => last'.model # NULL
  /\ Len(last'.pool) = 1
       => /\ last'.model = last'.pool[1]
          /\ inMemoryState' = inMemoryState
          /\ stateFile' = stateFile
  /\ (Len(last'.pool) >= 2
        /\ \E m \in Range(last'.pool) : Selectable(inMemoryState, m, now))
       => LET m == FirstSelectable(inMemoryState, last'.pool, now) IN
          /\ last'.model = m
          /\ ExpiredCooldown(inMemoryState, m, now)
               => /\ m \in DOMAIN inMemoryState'
                  /\ ~inMemoryState'[m].inCooldown
                  /\ inMemoryState'[m].cooldownUntil = NULL_TIME
                  /\ ~inMemoryState'[m].depleted
  /\ (Len(last'.pool) >= 2
        /\ AllDepletedCooling(inMemoryState, last'.pool, now))
       => last'.model = last'.pool[1]

\* C40: selectAvailableModel never returns null for a non-empty pool; for a
\* pool of one it returns that member and leaves the store alone; for a
\* larger pool it returns the first member in pool order that is untracked,
\* or whose cooldown has elapsed (and which it marks available), or that is
\* neither depleted nor in active cooldown; when every member is depleted
\* with an unexpired cooldown it returns pool[0] and changes no record.
C40_SelectFallsBackUnchanged ==
  [][ (last = Idle /\ last'.op = "selectAvailableModel")
        => /\ SelectsInPoolOrder
           /\ (Len(last'.pool) >= 2
                 /\ AllDepletedCooling(inMemoryState, last'.pool, now))
                => inMemoryState' = inMemoryState
    ]_vars

\* C40, amended: as above, but when every member is depleted with an
\* unexpired cooldown the call returns pool[0] and changes no record other
\* than removing the stale ones (last used before the 30-day horizon,
\* inCooldown false, callCount 0), which belong to models outside the pool.
C40_SelectFallsBackButStale ==
  [][ (last = Idle /\ last'.op = "selectAvailableModel")
        => /\ SelectsInPoolOrder
           /\ (Len(last'.pool) >= 2
                 /\ AllDepletedCooling(inMemoryState, last'.pool, now))
                => /\ DOMAIN inMemoryState'
                      = DOMAIN inMemoryState
                          \ Stale(inMemoryState, STATE_MAX_AGE_DAYS, now)
                   /\ \A m \in DOMAIN inMemoryState' :
                         inMemoryState'[m] = inMemoryState[m]
    ]_vars

\* selectAvailableModel fell back to pool[0] over a pool of two depleted,
\* cooling members
C40_Witness ==
  /\ last.op = "selectAvailableModel"
  /\ Len(last.pool) = 2
  /\ AllDepletedCooling(inMemoryState, last.pool, now)
  /\ last.model = last.pool[1]

\* the lower-cased string form of a field, empty when the field is absent
LowerField(x, k) == toLowerCase(StringOrEmpty(Get(x, k)))

\* the input is an object whose status is the number n
HasStatus(error, n) ==
  /\ typeof(Get(error, "status")) = "number"
  /\ Get(error, "status").v = n

\* the nested error has status resource_exhausted, a code containing
\* "insufficient" or a message containing "exhausted"
NestedSignalsExhaustion(error) ==
  LET nestedError == Get(error, "error") IN
  \/ LowerField(nestedError, "status") = "resource_exhausted"
  \/ includes(LowerField(nestedError, "code"), "insufficient")
  \/ includes(LowerField(nestedError, "message"), "exhausted")

\* C31: for status 529 the errorType is quota; for status 429 it is quota
\* exactly when the nested error has status resource_exhausted (in any
\* case), a code containing "insufficient" or a message containing
\* "exhausted", and rate_limit otherwise.
C31_StatusPathKind ==
  parsedError.done =>
    /\ HasStatus(parsedError.error, 529)
         => parsedError.result.errorType = "quota"
    /\ HasStatus(parsedError.error, 429)
         => parsedError.result.errorType
              = IF NestedSignalsExhaustion(parsedError.error)
                THEN "quota" ELSE "rate_limit"

\* C31, amended: for status 529 the errorType is quota; for status 429 it is
\* quota exactly when the nested error has status resource_exhausted (in any
\* case), a code containing "insufficient" or a message containing
\* "insufficient", or the message of the result (the outer message when it
\* is a string, the nested error's otherwise) contains "exhausted"; and
\* rate_limit otherwise.
C31_StatusPathKindByResultMessage ==
  parsedError.done =>
    /\ HasStatus(parsedError.error, 529)
         => parsedError.result.errorType = "quota"
    /\ HasStatus(parsedError.error, 429)
         => LET nestedError == Get(parsedError.error, "error") IN
            parsedError.result.errorType
              = IF \/ LowerField(nestedError, "status") = "resource_exhausted"
                   \/ includes(LowerField(nestedError, "code"), "insufficient")
                   \/ includes(LowerField(nestedError, "message"),
                               "insufficient")
                   \/ includes(toLowerCase(parsedError.result.message),
                               "exhausted")
                THEN "quota" ELSE "rate_limit"

\* parseError returned quota for a 429 whose nested error has the status
\* RESOURCE_EXHAUSTED in upper case and no message
C31_Witness ==
  /\ parsedError.done
  /\ parsedError.error =
       Obj([status |-> Num(429),
            error |-> Obj([status |-> Str("RESOURCE_EXHAUSTED")])])
  /\ parsedError.result.errorType = "quota"

ErrorTypes == {"rate_limit", "quota", "model_not_found", "other"}
Providers == {"anthropic", "openai", "google", "unknown"}

\* the nested error carries one of the type, code or status marks of a
\* rotation, or its message holds a keyword
NestedRule(nestedError) ==
  /\ typeof(nestedError) = "object"
  /\ Truthy(nestedError)
  /\ \/ includes(LowerField(nestedError, "type"), "rate_limit")
     \/ includes(LowerField(nestedError, "type"), "quota")
     \/ includes(LowerField(nestedError, "code"), "rate_limit")
     \/ includes(LowerField(nestedError, "code"), "quota")
     \/ includes(LowerField(nestedError, "code"), "insufficient")
     \/ LowerField(nestedError, "status") = "resource_exhausted"
     \/ containsRotationKeywords(extractMessage(nestedError))

\* the input matches a status, nested-error or keyword rule
MatchesRule(error) ==
  IF typeof(error) = "string" THEN containsRotationKeywords(error.v)
  ELSE IF ~Truthy(error) \/ typeof(error) # "object" THEN FALSE
  ELSE \/ HasStatus(error, 429)
       \/ HasStatus(error, 529)
       \/ NestedRule(Get(error, "error"))
       \/ NestedRule(Get(Get(Get(error, "error"), "data"), "error"))
       \/ containsRotationKeywords(extractMessage(error))

\* the input is neither a string nor an object: undefined, null, a number or
\* a boolean
Primitive(error) == error.t \in {"undefined", "null", "number", "boolean"}

TriggerObject(error) ==
  LET nestedError == Get(error, "error")
      deepestError == Get(Get(nestedError, "data"), "error")
  IN IF typeof(error) = "string" THEN Obj([name |-> error])
     ELSE IF NestedRule(nestedError) THEN nestedError
     ELSE IF Truthy(nestedError) /\ typeof(nestedError) = "object"
             /\ NestedRule(deepestError)
     THEN deepestError
     ELSE error

IndicatesNotFound(lowerMessage, object) ==
  \/ includes(lowerMessage, "not found")
  \/ includes(lowerMessage, "does not exist")
  \/ includes(lowerMessage, "invalid model")
  \/ includes(LowerField(object, "name"), "modelnotfound")
  \/ includes(LowerField(object, "type"), "not_found")

IndicatesQuota(lowerMessage, object) ==
  \/ includes(lowerMessage, "quota")
  \/ includes(lowerMessage, "insufficient")
  \/ includes(lowerMessage, "exhausted")
  \/ includes(LowerField(object, "type"), "quota")
  \/ includes(LowerField(object, "code"), "quota")
  \/ includes(LowerField(object, "code"), "insufficient")
  \/ LowerField(object, "status") = "resource_exhausted"

InferredOrigins(nestedError) ==
  LET errorType == LowerField(nestedError, "type")
      errorCode == LowerField(nestedError, "code")
      errorStatus == LowerField(nestedError, "status")
      byStatus == errorStatus = "resource_exhausted"
      byType == \/ includes(errorType, "rate_limit")
                \/ errorType = "quota_exceeded"
                \/ errorType = "overloaded_error"
  IN IF ~Truthy(nestedError) \/ typeof(nestedError) # "object" THEN {"unknown"}
     ELSE IF includes(errorCode, "rate_limit")
             \/ includes(errorCode, "insufficient")
     THEN {"openai"}
     ELSE IF byStatus \/ byType
     THEN {p \in {"google", "anthropic"} :
             (p = "google" /\ byStatus) \/ (p = "anthropic" /\ byType)}
     ELSE {"unknown"}

\* the input without its status
WithoutStatus(error) ==
  Obj([k \in DOMAIN error.f \ {"status"} |-> error.f[k]])

\* C34: a provider named by the model field always wins; otherwise, on the
\* status-code path and on the nested-error path alike, the provider is the
\* one inferred from the nested error's code, status and type by the one
\* rule, so that a nested error that triggers on its own gets the same
\* provider with and without a status 429 or 529 on the outer object.
C34_OneOriginRule ==
  (parsedError.done /\ typeof(parsedError.error) = "object"
     /\ Truthy(parsedError.error))
    => LET error == parsedError.error
           result == parsedError.result
           nestedError == Get(error, "error")
           onStatusPath == HasStatus(error, 429) \/ HasStatus(error, 529)
       IN IF includes(LowerField(error, "model"), "claude")
          THEN result.provider = "anthropic"
          ELSE /\ (onStatusPath \/ NestedRule(nestedError))
                    => result.provider \in InferredOrigins(nestedError)
               /\ (onStatusPath /\ NestedRule(nestedError))
                    => result.provider
                         = parseError(WithoutStatus(error)).provider

====
